---------------------------- MODULE Spec2Model ----------------------------
(***************************************************************************)
(* The Playground standard packet encoder                                  *)
(* (src/src/playground/network/packet/encoders/                            *)
(*  PlaygroundStandardPacketEncoder.py): the struct-based wire format, the *)
(* type-encoder registry, the leaf, group, list and framed-packet encoders *)
(* and the resumable (generator) decoder with its resynchronisation loop.  *)
(*                                                                         *)
(* Conventions of the model                                                *)
(*  - a byte is a number in 0..255, a stream is a sequence of bytes and a  *)
(*    0-based position, as tell() reports it;                              *)
(*  - a field object is a record: cls (its class), attrs (its attribute    *)
(*    set), data (Unset or Val(v)) and, for a complex field, inner (the    *)
(*    class dataType() returns);                                           *)
(*  - an exception is the name of its class in the field err, "none" when  *)
(*    nothing was raised;                                                  *)
(*  - a 64-bit unsigned value read with "!Q" is kept as its eight base-256 *)
(*    digits, so equality and XOR are exact; Num gives its number,         *)
(*    saturated at Sat, where the code does arithmetic on it.              *)
(***************************************************************************)
EXTENDS Integers, Sequences, FiniteSets, TLC

VARIABLES
    mode,       \* which scenario family the behaviour belongs to
    stream,     \* the bytes of the underlying stream
    pos,        \* the stream position (tell())
    max_size,   \* EncoderStreamAdapter._max_size (NoMax for None)
    gen,        \* the decoder generator: status, frames, locals
    target,     \* the field object being encoded or decoded into
    wire,       \* bytes not yet written into the stream by the transport
    hist        \* observations kept for the properties (history variable)

vars == <<mode, stream, pos, max_size, gen, target, wire, hist>>

----------------------------------------------------------------------------
(* Bounds of the model *)

\* Unpacked numbers at or above Sat are represented by Sat.
Sat == 1048576

----------------------------------------------------------------------------
(* Sequences and bytes *)

Min(a, b) == IF a < b THEN a ELSE b

Max(a, b) == IF a < b THEN b ELSE a

\* s[a..b) with 0-based offsets, clipped to the sequence.
Slice(s, a, b) ==
    LET lo == Max(a, 0)
        hi == Min(b, Len(s))
    IN  IF hi <= lo THEN <<>> ELSE [i \in 1..(hi - lo) |-> s[lo + i]]

Zeros(n) == [i \in 1..n |-> 0]

RECURSIVE Pow256(_)
Pow256(k) == IF k = 0 THEN 1 ELSE 256 * Pow256(k - 1)

\* The number a big-endian digit string denotes, saturated at Sat.
RECURSIVE NumFrom(_, _)
NumFrom(acc, bytes) ==
    IF bytes = <<>> THEN acc
    ELSE IF acc * 256 + Head(bytes) >= Sat THEN Sat
    ELSE NumFrom(acc * 256 + Head(bytes), Tail(bytes))

Num(bytes) == NumFrom(0, bytes)

\* Big-endian two's-complement digits of v in w bytes (|v| < 2^31).
IntBytes(v, w) ==
    [i \in 1..w |->
        LET k == w - i
        IN  IF k < 4 THEN (v \div Pow256(k)) % 256
            ELSE IF v < 0 THEN 255 ELSE 0]

----------------------------------------------------------------------------
(* struct: a pack code is a sequence of items [fmt, n]; network order, no  *)
(* padding.  "!H3s" is <<Item("H", 1), Item("s", 3)>>.                       *)

Item(fmt, n) == [fmt |-> fmt, n |-> n]

Code1(fmt) == <<Item(fmt, 1)>>

CodeS(n) == <<Item("s", n)>>

ItemSize(it) ==
    CASE it.fmt \in {"B", "b", "?"} -> 1
      [] it.fmt \in {"H", "h"} -> 2
      [] it.fmt \in {"I", "i", "f"} -> 4
      [] it.fmt \in {"Q", "q", "d"} -> 8
      [] it.fmt = "s" -> it.n

RECURSIVE calcsize(_)
calcsize(code) ==
    IF code = <<>> THEN 0 ELSE ItemSize(Head(code)) + calcsize(Tail(code))

\* struct.pack's range check of one integer argument (model values are
\* below 2^31 in magnitude, so the 32- and 64-bit codes only check the sign).
InRange(fmt, v) ==
    CASE fmt = "B" -> 0 <= v /\ v <= 255
      [] fmt = "H" -> 0 <= v /\ v <= 65535
      [] fmt \in {"I", "Q"} -> 0 <= v
      [] fmt = "b" -> -128 <= v /\ v <= 127
      [] fmt = "h" -> -32768 <= v /\ v <= 32767
      [] fmt \in {"i", "q"} -> TRUE

\* One item packed: "s" truncates or zero-pads its bytes to n.  A float is
\* kept as the IEEE 754 bits of its width, [bits |-> bytes]; the rounding of
\* a float to another width is not modelled and model floats are packed at
\* their own width only.
PackItem(it, v) ==
    CASE it.fmt = "s" ->
            [ok |-> TRUE,
             bytes |-> Slice(v, 0, it.n) \o Zeros(Max(it.n - Len(v), 0))]
      [] it.fmt = "?" ->
            [ok |-> TRUE, bytes |-> IF v THEN <<1>> ELSE <<0>>]
      [] it.fmt \in {"f", "d"} ->
            IF Len(v.bits) = ItemSize(it)
            THEN [ok |-> TRUE, bytes |-> v.bits]
            ELSE [ok |-> FALSE, bytes |-> <<>>]
      [] OTHER ->
            IF InRange(it.fmt, v)
            THEN [ok |-> TRUE, bytes |-> IntBytes(v, ItemSize(it))]
            ELSE [ok |-> FALSE, bytes |-> <<>>]

\* struct.pack(code, *args): all or nothing.
RECURSIVE struct_pack(_, _)
struct_pack(code, args) ==
    IF code = <<>> THEN [ok |-> TRUE, bytes |-> <<>>]
    ELSE LET h == PackItem(Head(code), Head(args))
             t == struct_pack(Tail(code), Tail(args))
         IN  IF h.ok /\ t.ok
             THEN [ok |-> TRUE, bytes |-> h.bytes \o t.bytes]
             ELSE [ok |-> FALSE, bytes |-> <<>>]

\* The signed reading of big-endian digits.
SignedNum(bytes) ==
    IF bytes[1] < 128 THEN Num(bytes)
    ELSE 0 - (Num([i \in 1..Len(bytes) |-> 255 - bytes[i]]) + 1)

\* struct.unpack of a one-item code on a chunk of exactly its size.
struct_unpack(code, chunk) ==
    LET fmt == code[1].fmt
    IN  CASE fmt = "s" -> chunk
          [] fmt = "?" -> chunk[1] # 0
          [] fmt \in {"f", "d"} -> [bits |-> chunk]
          [] fmt \in {"B", "H", "I", "Q"} -> Num(chunk)
          [] OTHER -> SignedNum(chunk)

----------------------------------------------------------------------------
(* UTF-8 (str.encode / bytes.decode with UNICODE_ENCODING): a string is a  *)
(* sequence of code points.                                                *)

IsSurrogate(cp) == 55296 <= cp /\ cp <= 57343

Utf8Char(cp) ==
    IF cp < 128 THEN <<cp>>
    ELSE IF cp < 2048 THEN <<192 + (cp \div 64), 128 + (cp % 64)>>
    ELSE IF cp < 65536
         THEN <<224 + (cp \div 4096), 128 + ((cp \div 64) % 64), 128 + (cp % 64)>>
    ELSE <<240 + (cp \div 262144), 128 + ((cp \div 4096) % 64),
           128 + ((cp \div 64) % 64), 128 + (cp % 64)>>

RECURSIVE Utf8Bytes(_)
Utf8Bytes(str) ==
    IF str = <<>> THEN <<>> ELSE Utf8Char(Head(str)) \o Utf8Bytes(Tail(str))

\* str.encode("utf-8"): lone surrogates cannot be encoded.
utf8_encode(str) ==
    IF \E i \in 1..Len(str) : IsSurrogate(str[i])
    THEN [ok |-> FALSE, bytes |-> <<>>]
    ELSE [ok |-> TRUE, bytes |-> Utf8Bytes(str)]

IsCont(b) == 128 <= b /\ b <= 191

\* The length of the well-formed UTF-8 sequence that starts bytes, 0 if none.
Utf8SeqLen(bytes) ==
    LET b1 == bytes[1]
        n  == Len(bytes)
    IN  IF b1 < 128 THEN 1
        ELSE IF 194 <= b1 /\ b1 <= 223
             THEN IF n >= 2 /\ IsCont(bytes[2]) THEN 2 ELSE 0
        ELSE IF 224 <= b1 /\ b1 <= 239
             THEN IF /\ n >= 3 /\ IsCont(bytes[2]) /\ IsCont(bytes[3])
                     /\ (b1 = 224 => bytes[2] >= 160)
                     /\ (b1 = 237 => bytes[2] <= 159)
                  THEN 3 ELSE 0
        ELSE IF 240 <= b1 /\ b1 <= 244
             THEN IF /\ n >= 4 /\ IsCont(bytes[2]) /\ IsCont(bytes[3])
                     /\ IsCont(bytes[4])
                     /\ (b1 = 240 => bytes[2] >= 144)
                     /\ (b1 = 244 => bytes[2] <= 143)
                  THEN 4 ELSE 0
        ELSE 0

Utf8CodePoint(bytes, k) ==
    CASE k = 1 -> bytes[1]
      [] k = 2 -> (bytes[1] - 192) * 64 + (bytes[2] - 128)
      [] k = 3 -> (bytes[1] - 224) * 4096 + (bytes[2] - 128) * 64
                  + (bytes[3] - 128)
      [] k = 4 -> (bytes[1] - 240) * 262144 + (bytes[2] - 128) * 4096
                  + (bytes[3] - 128) * 64 + (bytes[4] - 128)

\* bytes.decode("utf-8"), strict.
RECURSIVE utf8_decode(_)
utf8_decode(bytes) ==
    IF bytes = <<>> THEN [ok |-> TRUE, str |-> <<>>]
    ELSE LET k == Utf8SeqLen(bytes)
         IN  IF k = 0 THEN [ok |-> FALSE, str |-> <<>>]
             ELSE LET rest == utf8_decode(Slice(bytes, k, Len(bytes)))
                  IN  IF rest.ok
                      THEN [ok |-> TRUE,
                            str |-> <<Utf8CodePoint(bytes, k)>> \o rest.str]
                      ELSE [ok |-> FALSE, str |-> <<>>]

----------------------------------------------------------------------------
(* Field objects and classes.  The field-type classes live outside this    *)
(* file (playground.network.packet.fieldtypes); the model keeps of them    *)
(* what the encoder reads: the class, its bases, the attributes, the data  *)
(* slot and, for a complex field, the inner data type.                     *)

Unset == [unset |-> TRUE]

Val(v) == [v |-> v]

NoClass == ""

NoAttrs == [a \in {} |-> 0]

\* cls.__bases__
Bases(cls) ==
    CASE cls \in {"UINT", "INT", "BOOL", "FloatFieldType", "StringFieldType",
                  "BufferFieldType", "ComplexFieldType", "OpaqueFieldType"}
            -> <<"PacketFieldType">>
      [] cls = "UINT8" -> <<"UINT">>
      [] cls = "ListFieldType" -> <<"ComplexFieldType">>
      [] cls = "NamedPacketType" -> <<"PacketFields">>
      [] cls \in {"SomeFields", "OtherFields"} -> <<"PacketFields">>
      [] cls \in {"DemoPacket", "BasePacket"} -> <<"NamedPacketType">>
      [] cls \in {"PacketFieldType", "PacketFields"} -> <<"object">>
      [] OTHER -> <<>>

\* PacketFieldType.GetAttribute(field, attr, default)
GetAttribute(field, attr, default) ==
    IF attr \in DOMAIN field.attrs THEN field.attrs[attr] ELSE default

\* A leaf field object.
Field(cls, attrs, data) ==
    [cls |-> cls, inner |-> NoClass, attrs |-> attrs, data |-> data]

\* ComplexFieldType(inner): data is Unset or an instance of a PacketFields class.
ComplexField(inner, attrs, data) ==
    [cls |-> "ComplexFieldType", inner |-> inner, attrs |-> attrs, data |-> data]

\* ListFieldType(elem): elem is the element field the list was declared with.
ListField(elem, attrs, data) ==
    [cls |-> "ListFieldType", inner |-> elem.cls, elem |-> elem,
     attrs |-> attrs, data |-> data]

\* An instance of a PacketFields class: its FIELDS declaration (a sequence
\* of [name, type]) and one raw field object per declared name.
Instance(cls, ident, version, FIELDS, raw) ==
    [cls |-> cls, DEFINITION_IDENTIFIER |-> ident,
     DEFINITION_VERSION |-> version, FIELDS |-> FIELDS, raw |-> raw]

FieldNames(FIELDS) == {FIELDS[i].name : i \in 1..Len(FIELDS)}

DeclOf(FIELDS, name) ==
    FIELDS[CHOOSE i \in 1..Len(FIELDS) : FIELDS[i].name = name].type

\* cls(): a new instance, every raw field unset.
NewInstance(cls, ident, version, FIELDS) ==
    Instance(cls, ident, version, FIELDS,
             [n \in FieldNames(FIELDS) |-> DeclOf(FIELDS, n)])

----------------------------------------------------------------------------
(* The type-encoder registry *)

RECURSIVE AncestorWalk(_, _)
AncestorWalk(queue, terminals) ==
    IF queue = <<>> THEN <<>>
    ELSE LET nextClass == Head(queue)
             rest == IF nextClass \notin terminals
                     THEN Tail(queue) \o Bases(nextClass)
                     ELSE Tail(queue)
         IN  <<nextClass>> \o AncestorWalk(rest, terminals)

iterateClassAncestors(cls, terminals) == AncestorWalk(<<cls>>, terminals)

IsSubclass(cls, base) ==
    \E i \in 1..Len(iterateClassAncestors(cls, {})) :
        iterateClassAncestors(cls, {})[i] = base

RECURSIVE PairKeys(_, _)
PairKeys(outers, inners) ==
    IF outers = <<>> THEN <<>>
    ELSE [i \in 1..Len(inners) |-> <<Head(outers), inners[i]>>]
         \o PairKeys(Tail(outers), inners)

\* _GetTypeKey for an outer class and the inner class of a complex type
\* (NoClass otherwise): the keys in the order the generator yields them.
\* Raises when the outer class is no PacketFieldType.
GetTypeKey(outer, inner) ==
    IF ~IsSubclass(outer, "PacketFieldType") THEN <<>>
    ELSE LET outers == iterateClassAncestors(outer,
                           {"PacketFieldType", "ComplexFieldType"})
         IN  IF inner = NoClass
             THEN [i \in 1..Len(outers) |-> <<outers[i]>>]
             ELSE PairKeys(outers, iterateClassAncestors(inner, {"PacketFieldType"}))

\* The RegisterTypeEncoder calls of the module, in file order.
Registrations ==
    << [outer |-> "FloatFieldType",   inner |-> NoClass, encoder |-> "FloatEncoder"],
       [outer |-> "UINT",             inner |-> NoClass, encoder |-> "UintEncoder"],
       [outer |-> "INT",              inner |-> NoClass, encoder |-> "IntEncoder"],
       [outer |-> "BOOL",             inner |-> NoClass, encoder |-> "BoolEncoder"],
       [outer |-> "StringFieldType",  inner |-> NoClass, encoder |-> "StringEncoder"],
       [outer |-> "BufferFieldType",  inner |-> NoClass, encoder |-> "BufferEncoder"],
       [outer |-> "ComplexFieldType", inner |-> "PacketFields",
        encoder |-> "PacketFieldsEncoder"],
       [outer |-> "ListFieldType",    inner |-> "PacketFieldType",
        encoder |-> "ListEncoder"],
       [outer |-> "ComplexFieldType", inner |-> "NamedPacketType",
        encoder |-> "PacketEncoder"] >>

\* RegisterTypeEncoder: store under the first key the generator yields.
RegisterTypeEncoder(table, reg) ==
    LET key == GetTypeKey(reg.outer, reg.inner)[1]
    IN  [k \in DOMAIN table \cup {key} |->
            IF k = key THEN reg.encoder ELSE table[k]]

RECURSIVE RegisterAll(_, _)
RegisterAll(table, regs) ==
    IF regs = <<>> THEN table
    ELSE RegisterAll(RegisterTypeEncoder(table, Head(regs)), Tail(regs))

TypeEncoders == RegisterAll([k \in {} |-> ""], Registrations)

None == "None"

\* (A faulty FirstRegistered: the most general registered key wins)
RECURSIVE LastRegistered(_, _)
LastRegistered(table, keys) ==
    IF keys = <<>> THEN None
    ELSE IF keys[Len(keys)] \in DOMAIN table THEN table[keys[Len(keys)]]
    ELSE LastRegistered(table, SubSeq(keys, 1, Len(keys) - 1))

RECURSIVE FirstRegistered(_, _)
FirstRegistered(table, keys) ==
    IF keys = <<>> THEN None
    ELSE IF Head(keys) \in DOMAIN table THEN table[Head(keys)]
    ELSE FirstRegistered(table, Tail(keys))

\* GetTypeEncoder(fieldType)
GetTypeEncoder(field) ==
    FirstRegistered(TypeEncoders, GetTypeKey(field.cls, field.inner))

----------------------------------------------------------------------------
(* The stream under the adapter: s = [bytes, pos].  tell, seek, read,      *)
(* write and available come from AbstractStreamAdapter and the stream      *)
(* itself, which are outside this file; they behave as a seekable          *)
(* in-memory byte stream.                                                  *)

Stream(bytes, p) == [bytes |-> bytes, pos |-> p]

tell(s) == s.pos

seek(s, p) == [s EXCEPT !.pos = p]

available(s) == Max(Len(s.bytes) - s.pos, 0)

\* write at the position: overwrites, extends, and zero-fills a gap.
write(s, b) ==
    LET gap == Zeros(Max(s.pos - Len(s.bytes), 0))
    IN  Stream(Slice(s.bytes, 0, s.pos) \o gap \o b
                 \o Slice(s.bytes, s.pos + Len(b), Len(s.bytes)),
               s.pos + Len(b))

\* read(n): up to n bytes; a negative n reads to the end.
read(s, n) ==
    IF n < 0 THEN seek(s, Max(s.pos, Len(s.bytes)))
    ELSE seek(s, Min(s.pos + n, Max(s.pos, Len(s.bytes))))

\* EncoderStreamAdapter.pack: the result of an encode step is [err, s].
pack(s, packCode, args) ==
    LET p == struct_pack(packCode, args)
    IN  IF p.ok THEN [err |-> "none", s |-> write(s, p.bytes)]
        ELSE [err |-> "struct.error", s |-> s]

Raise(kind, s) == [err |-> kind, s |-> s]

----------------------------------------------------------------------------
(* Pack codes of the intrinsic encoders.  MaxValue is a big-endian base-256 *)
(* digit string without leading zeros, so 2^32 and 2^64 are exact.          *)

BigLt(a, b) ==
    \/ Len(a) < Len(b)
    \/ /\ Len(a) = Len(b)
       /\ \E i \in 1..Len(a) :
            /\ a[i] < b[i]
            /\ \A j \in 1..(i - 1) : a[j] = b[j]

\* 2^(8k)
BigPow(k) == <<1>> \o Zeros(k)

UINT_SIZE_TO_PACKCODE ==
    << [max |-> BigPow(1), code |-> "B"], [max |-> BigPow(2), code |-> "H"],
       [max |-> BigPow(4), code |-> "I"], [max |-> BigPow(8), code |-> "Q"] >>

INT_SIZE_TO_PACKCODE ==
    << [max |-> BigPow(1), code |-> "b"], [max |-> BigPow(2), code |-> "h"],
       [max |-> BigPow(4), code |-> "i"], [max |-> BigPow(8), code |-> "q"] >>

\* (2**32)-1
DEFAULT_MAXVALUE == <<255, 255, 255, 255>>

\* (A faulty LoopStop: "maxValue <= packMaxValue" for "<")
RECURSIVE LoopStopLe(_, _, _)
LoopStopLe(table, maxValue, i) ==
    IF ~BigLt(table[i].max, maxValue) \/ i = Len(table) THEN i
    ELSE LoopStopLe(table, maxValue, i + 1)

\* The table entry the for loop stops at: the first whose bound exceeds
\* maxValue, the last when the loop runs out.
RECURSIVE LoopStop(_, _, _)
LoopStop(table, maxValue, i) ==
    IF BigLt(maxValue, table[i].max) \/ i = Len(table) THEN i
    ELSE LoopStop(table, maxValue, i + 1)

\* UintEncoder._maxValueToPackCode: [err, code]
maxValueToPackCode(table, maxValue) ==
    LET e == table[LoopStop(table, maxValue, 1)]
    IN  IF ~BigLt(maxValue, e.max)
        THEN [err |-> "PacketEncodingError", code |-> <<>>]
        ELSE [err |-> "none", code |-> Code1(e.code)]

\* _getPackCode of the encoder class enc for a field: [err, code]
getPackCode(enc, field) ==
    CASE enc = "UintEncoder" ->
            maxValueToPackCode(UINT_SIZE_TO_PACKCODE,
                GetAttribute(field, "MaxValue", DEFAULT_MAXVALUE))
      [] enc = "IntEncoder" ->
            maxValueToPackCode(INT_SIZE_TO_PACKCODE,
                GetAttribute(field, "MaxValue", DEFAULT_MAXVALUE))
      [] enc = "BoolEncoder" -> [err |-> "none", code |-> Code1("?")]
      [] enc = "FloatEncoder" ->
            LET bits == GetAttribute(field, "Bits", 32)
            IN  IF bits = 32 THEN [err |-> "none", code |-> Code1("f")]
                ELSE IF bits = 64 THEN [err |-> "none", code |-> Code1("d")]
                ELSE [err |-> "KeyError", code |-> <<>>]

IsIntrinsic(enc) ==
    enc \in {"UintEncoder", "IntEncoder", "BoolEncoder", "FloatEncoder"}

----------------------------------------------------------------------------
(* Encoding *)

\* IntrinsicTypeStandardEncoder.encode
IntrinsicEncode(enc, s, field) ==
    LET pc == getPackCode(enc, field)
    IN  IF pc.err # "none" THEN Raise(pc.err, s)
        ELSE IF field.data = Unset THEN Raise("struct.error", s)
        ELSE pack(s, pc.code, <<field.data.v>>)

\* 2**(8*STRING_LENGTH_BYTES)
STRING_MAX_LENGTH == 65536

\* StringEncoder.encode
StringEncode(s, strField) ==
    IF strField.data = Unset THEN Raise("TypeError", s)
    ELSE LET strLen == Len(strField.data.v)
             strEncoded == utf8_encode(strField.data.v)
         IN  IF strLen > STRING_MAX_LENGTH THEN Raise("PacketEncodingError", s)
             ELSE IF ~strEncoded.ok THEN Raise("UnicodeEncodeError", s)
             ELSE pack(s, <<Item("H", 1), Item("s", strLen)>>,
                       <<strLen, strEncoded.bytes>>)

\* BufferEncoder.encode (a model buffer is far shorter than MAX_LENGTH = 2^64)
BufferEncode(s, bufField) ==
    IF bufField.data = Unset THEN Raise("TypeError", s)
    ELSE LET bufLen == Len(bufField.data.v)
         IN  pack(s, <<Item("Q", 1), Item("s", bufLen)>>,
                  <<bufLen, bufField.data.v>>)

\* (A faulty NextAutoTag: tags in use are not skipped)
NextAutoTagNoSkip(autoTag, used) == autoTag

\* while autoTag in fieldToTag.inverse(): autoTag += 1
NextAutoTag(autoTag, used) ==
    CHOOSE t \in autoTag..(autoTag + Cardinality(used)) :
        /\ t \notin used
        /\ \A u \in autoTag..(t - 1) : u \in used

\* PacketFieldsEncoder._processFields, one loop iteration after another:
\* [err, f2t] with f2t the name -> tag map of the Bijection.
RECURSIVE ProcessLoop(_, _, _, _)
ProcessLoop(fields, i, autoTag, f2t) ==
    IF i > Len(fields) THEN [err |-> "none", f2t |-> f2t]
    ELSE LET fieldName == fields[i].name
             used == {f2t[n] : n \in DOMAIN f2t}
             tag == GetAttribute(fields[i].type, "ExplicitTag", -1)
             nextAuto == NextAutoTag(autoTag, used)
             newTag == IF tag = -1 THEN nextAuto ELSE tag
         IN  IF fieldName \in DOMAIN f2t THEN [err |-> "Exception", f2t |-> f2t]
             ELSE IF tag # -1 /\ tag \in used
                  THEN [err |-> "Exception", f2t |-> f2t]
             ELSE ProcessLoop(fields, i + 1,
                      IF tag = -1 THEN nextAuto ELSE autoTag,
                      [n \in DOMAIN f2t \cup {fieldName} |->
                          IF n = fieldName THEN newTag ELSE f2t[n]])

processFields(fields) == ProcessLoop(fields, 1, 0, [n \in {} |-> 0])

\* Bijection.inverse()
Inverse(f2t) ==
    [t \in {f2t[n] : n \in DOMAIN f2t} |-> CHOOSE n \in DOMAIN f2t : f2t[n] = t]

\* (A faulty CollectFields: an unset field is skipped whether or not it is
\* optional)
RECURSIVE CollectFieldsSkipUnset(_, _, _)
CollectFieldsSkipUnset(packetFields, i, acc) ==
    IF i > Len(packetFields.FIELDS) THEN [err |-> "none", names |-> acc]
    ELSE LET fieldName == packetFields.FIELDS[i].name
         IN  CollectFieldsSkipUnset(packetFields, i + 1,
                 IF packetFields.raw[fieldName].data = Unset THEN acc
                 ELSE Append(acc, fieldName))

\* The first loop of PacketFieldsEncoder.encode: the names of the fields
\* that have data, in declaration order, or the error of an unset field
\* that is not optional.
RECURSIVE CollectFields(_, _, _)
CollectFields(packetFields, i, acc) ==
    IF i > Len(packetFields.FIELDS) THEN [err |-> "none", names |-> acc]
    ELSE LET fieldName == packetFields.FIELDS[i].name
             rawField == packetFields.raw[fieldName]
         IN  IF rawField.data = Unset
             THEN IF GetAttribute(rawField, "Optional", FALSE) = TRUE
                  THEN CollectFields(packetFields, i + 1, acc)
                  ELSE [err |-> "PacketEncodingError", names |-> acc]
             ELSE CollectFields(packetFields, i + 1, Append(acc, fieldName))

\* (A faulty XorOnes: the mask is 0xFFFFFFFF)
XorOnesLow32(digits) ==
    [i \in 1..Len(digits) |-> IF i > 4 THEN 255 - digits[i] ELSE digits[i]]

\* packetLength ^ 0xFFFFFFFFFFFFFFFF on the eight digits of a 64-bit value
XorOnes(digits) == [i \in 1..Len(digits) |-> 255 - digits[i]]

RECURSIVE encode(_, _)
RECURSIVE WriteFields(_, _, _, _, _)
RECURSIVE WriteItems(_, _, _)

\* The second loop of PacketFieldsEncoder.encode: tag, then the field, any
\* exception wrapped in a PacketEncodingError.
WriteFields(s, packetFields, f2t, names, i) ==
    IF i > Len(names) THEN [err |-> "none", s |-> s]
    ELSE LET t == pack(s, Code1("H"), <<f2t[names[i]]>>)
             r == IF t.err # "none" THEN t
                  ELSE encode(t.s, packetFields.raw[names[i]])
         IN  IF r.err # "none" THEN Raise("PacketEncodingError", r.s)
             ELSE WriteFields(r.s, packetFields, f2t, names, i + 1)

\* PacketFieldsEncoder.encode
PacketFieldsEncode(s, complexType) ==
    IF complexType.data = Unset THEN Raise("AttributeError", s)
    ELSE LET packetFields == complexType.data.v
             fieldToTag == processFields(packetFields.FIELDS)
             encodeFields == CollectFields(packetFields, 1, <<>>)
         IN  IF fieldToTag.err # "none" THEN Raise(fieldToTag.err, s)
             ELSE IF encodeFields.err # "none" THEN Raise(encodeFields.err, s)
             ELSE LET c == pack(s, Code1("H"), <<Len(encodeFields.names)>>)
                  IN  IF c.err # "none" THEN c
                      ELSE WriteFields(c.s, packetFields, fieldToTag.f2t,
                                       encodeFields.names, 1)

\* The loop of ListEncoder.encode
WriteItems(s, items, i) ==
    IF i > Len(items) THEN [err |-> "none", s |-> s]
    ELSE LET r == encode(s, items[i])
         IN  IF r.err # "none" THEN r ELSE WriteItems(r.s, items, i + 1)

\* ListEncoder.encode
ListEncode(s, listType) ==
    IF listType.data = Unset THEN Raise("TypeError", s)
    ELSE LET c == pack(s, Code1("H"), <<Len(listType.data.v)>>)
         IN  IF c.err # "none" THEN c ELSE WriteItems(c.s, listType.data.v, 1)

\* (A faulty SeekEnd: the position stays behind the length words)
StayAtHeader(s, packetEndPosition) == s

\* stream.seek(packetEndPosition) at the end of PacketEncoder.encode
SeekEnd(s, packetEndPosition) == seek(s, packetEndPosition)

\* PacketEncoder.encode
PacketEncode(s, complexType) ==
    IF complexType.data = Unset THEN Raise("AttributeError", s)
    ELSE
    LET packetStartPosition == tell(s)
        packet == complexType.data.v
        packetDefEncoded == utf8_encode(packet.DEFINITION_IDENTIFIER)
        packetVerEncoded == utf8_encode(packet.DEFINITION_VERSION)
    IN  IF ~packetDefEncoded.ok \/ ~packetVerEncoded.ok
        THEN Raise("UnicodeEncodeError", s)
        ELSE
        LET def == packetDefEncoded.bytes
            ver == packetVerEncoded.bytes
            h == pack(s, <<Item("Q", 1), Item("Q", 1), Item("B", 1),
                           Item("s", Len(def)), Item("B", 1), Item("s", Len(ver))>>,
                      <<0, 0, Len(def), def, Len(ver), ver>>)
        IN  IF h.err # "none" THEN h
            ELSE
            LET b == PacketFieldsEncode(h.s, complexType)
            IN  IF b.err # "none" THEN b
                ELSE
                LET packetEndPosition == tell(b.s)
                    packetLength == packetEndPosition - packetStartPosition
                    l == pack(seek(b.s, packetStartPosition), Code1("Q"),
                              <<packetLength>>)
                    c == write(l.s, XorOnes(IntBytes(packetLength, 8)))
                IN  [err |-> "none", s |-> SeekEnd(c, packetEndPosition)]

\* PlaygroundStandardPacketEncoder.encode
encode(s, fieldType) ==
    LET typeEncoder == GetTypeEncoder(fieldType)
    IN  CASE typeEncoder = None -> Raise("PacketEncodingError", s)
          [] IsIntrinsic(typeEncoder) -> IntrinsicEncode(typeEncoder, s, fieldType)
          [] typeEncoder = "StringEncoder" -> StringEncode(s, fieldType)
          [] typeEncoder = "BufferEncoder" -> BufferEncode(s, fieldType)
          [] typeEncoder = "PacketFieldsEncoder" -> PacketFieldsEncode(s, fieldType)
          [] typeEncoder = "ListEncoder" -> ListEncode(s, fieldType)
          [] typeEncoder = "PacketEncoder" -> PacketEncode(s, fieldType)

----------------------------------------------------------------------------
(* Packet definitions (DEFINITIONS_STORE) and the PacketFields classes of  *)
(* the model.  A string is written as its code points: "p" is <<112>>,     *)
(* "1.0" is <<49, 46, 48>>.                                                *)

U8 == "MaxValue" :> <<255>>

OptionalAttr == "Optional" :> TRUE

Decl(name, type) == [name |-> name, type |-> type]

\* FIELDS of a PacketFields class
ClassFIELDS(cls) ==
    CASE cls = "SomeFields" ->
            << Decl("field1", Field("UINT", U8, Unset)),
               Decl("field2", Field("UINT", OptionalAttr, Unset)),
               Decl("text", Field("StringFieldType",
                                  OptionalAttr @@ ("ExplicitTag" :> 5), Unset)),
               Decl("list1", ListField(Field("UINT", U8, Unset),
                                       OptionalAttr, Unset)) >>
      [] cls = "OtherFields" ->
            << Decl("inner", ComplexField("SomeFields", NoAttrs, Unset)),
               Decl("flag", Field("BOOL", OptionalAttr, Unset)) >>
      [] cls = "DemoPacket" ->
            << Decl("a", Field("UINT", U8, Unset)),
               Decl("b", Field("INT", U8 @@ OptionalAttr, Unset)) >>
      [] OTHER -> <<>>

ClassIdentifier(cls) == IF cls = "DemoPacket" THEN <<112>> ELSE <<>>

ClassVersion(cls) == IF cls = "DemoPacket" THEN <<49, 46, 48>> ELSE <<>>

\* cls()
New(cls) ==
    NewInstance(cls, ClassIdentifier(cls), ClassVersion(cls), ClassFIELDS(cls))

\* PacketDefinitionVersion.FromString: dot-separated decimal numbers.
IsDigit(c) == 48 <= c /\ c <= 57

VersionFromString(str) ==
    IF /\ str # <<>>
       /\ \A i \in 1..Len(str) : IsDigit(str[i]) \/ str[i] = 46
       /\ IsDigit(str[1]) /\ IsDigit(str[Len(str)])
       /\ \A i \in 1..(Len(str) - 1) : ~(str[i] = 46 /\ str[i + 1] = 46)
    THEN [ok |-> TRUE, version |-> str]
    ELSE [ok |-> FALSE, version |-> <<>>]

\* basePacketType.DEFINITIONS_STORE.getDefinition(name, version)
getDefinition(name, version) ==
    IF name = ClassIdentifier("DemoPacket") /\ version = ClassVersion("DemoPacket")
    THEN "DemoPacket" ELSE None

----------------------------------------------------------------------------
(* Raw access into a field tree: a path is a sequence of keys [name, idx], *)
(* name for __getrawfield__, idx for __getrawitem__.                       *)

Key(name, idx) == [name |-> name, idx |-> idx]

Child(field, key) ==
    IF field.cls = "ListFieldType" THEN field.data.v[key.idx]
    ELSE field.data.v.raw[key.name]

RECURSIVE GetAt(_, _)
GetAt(field, path) ==
    IF path = <<>> THEN field ELSE GetAt(Child(field, Head(path)), Tail(path))

RECURSIVE SetAt(_, _, _)
SetAt(field, path, new) ==
    IF path = <<>> THEN new
    ELSE LET sub == SetAt(Child(field, Head(path)), Tail(path), new)
         IN  IF field.cls = "ListFieldType"
             THEN [field EXCEPT !.data.v[Head(path).idx] = sub]
             ELSE [field EXCEPT !.data.v.raw[Head(path).name] = sub]

\* fieldType.setData(v) at a path of the tree
setData(root, path, v) ==
    SetAt(root, path, [GetAt(root, path) EXCEPT !.data = Val(v)])

\* complexType.initializeData(): an unset complex field gets a new instance
\* of its data type.
initializeData(root, path) ==
    LET f == GetAt(root, path)
    IN  IF f.data = Unset THEN setData(root, path, New(f.inner)) ELSE root

\* listType.append(PacketFieldType.UNSET)
appendUnset(root, path) ==
    LET f == GetAt(root, path)
    IN  setData(root, path, Append(f.data.v, f.elem))

----------------------------------------------------------------------------
(* The resumable decoder.  A decodeIterator generator and the generators   *)
(* it delegates to with "yield from" are a stack of frames, innermost      *)
(* last; a frame is the encoder class, the place it is suspended at (pc),  *)
(* the path of its field in the target and its locals.  The machine state  *)
(* m = [status, err, stack, s, max, root]: status is "run" while the       *)
(* generator executes, "wait" at a yield of DECODE_WAITING_FOR_STREAM,     *)
(* "done" when it returned and "fail" when it raised err.  m.obs records   *)
(* what the properties need of a run and the code does not keep: the       *)
(* frame the packet decoder locked on, an unknown tag met, the yields,     *)
(* the candidate starts tried, each with the position its length was read *)
(* at, a read the size limit rejected, a request                           *)
(* above the locked frame's length that got past the limit, the unpack     *)
(* request in progress (req: where it started and its size) and whether    *)
(* every completed request advanced the position by its size (exact).      *)

\* EncoderStreamAdapter._max_size = None
NoMax == -1

NoObs ==
    [locked |-> FALSE, lockStart |-> 0, lockLen |-> 0, unknownTag |-> FALSE,
     yielded |-> FALSE, tried |-> <<>>, capped |-> FALSE, over |-> FALSE,
     req |-> [open |-> FALSE, pos |-> 0, size |-> 0], exact |-> TRUE]

Frame(enc, pc, path) ==
    [enc |-> enc, pc |-> pc, path |-> path, i |-> 0, n |-> 0, start |-> 0,
     plen |-> <<>>, name |-> <<>>, found |-> FALSE, f2t |-> [x \in {} |-> 0]]

Top(m) == m.stack[Len(m.stack)]

SetTop(m, f) == [m EXCEPT !.stack[Len(m.stack)] = f]

\* The class of the exception once it has left the frames of the stack:
\* the try blocks of PacketFieldsEncoder.decodeIterator (around the field's
\* decode) and of ListEncoder.decodeIterator (around the element's decode)
\* turn whatever passes through them into a PacketEncodingError.
RECURSIVE Unwind(_, _)
Unwind(stack, kind) ==
    IF stack = <<>> THEN kind
    ELSE LET f == stack[Len(stack)]
         IN  Unwind(SubSeq(stack, 1, Len(stack) - 1),
                    IF f.pc \in {"in_field", "in_elem"}
                    THEN "PacketEncodingError" ELSE kind)

RaiseIn(m, kind) ==
    [m EXCEPT !.status = "fail", !.err = Unwind(m.stack, kind), !.stack = <<>>]

\* A generator returns: its frame is popped and the frame that delegated
\* to it continues after its "yield from".
Return(m) ==
    LET rest == SubSeq(m.stack, 1, Len(m.stack) - 1)
    IN  IF rest = <<>> THEN [m EXCEPT !.status = "done", !.stack = <<>>]
        ELSE LET p == rest[Len(rest)]
                 after == CASE p.pc = "in_field" -> "field_done"
                            [] p.pc = "in_elem" -> "elem_done"
                            [] p.pc = "in_body" -> "tail"
             IN  [m EXCEPT !.stack = [rest EXCEPT ![Len(rest)].pc = after]]

\* How a generator of each encoder class starts.
FirstPc(enc) ==
    CASE IsIntrinsic(enc) -> "unpack"
      [] enc \in {"StringEncoder", "BufferEncoder"} -> "len"
      [] enc = "PacketFieldsEncoder" -> "init"
      [] enc = "ListEncoder" -> "size"
      [] enc = "PacketEncoder" -> "init"

\* PlaygroundStandardPacketEncoder.decodeIterator for the field at path:
\* delegate to the decodeIterator of its type's encoder.
CallDecode(m, path) ==
    LET typeDecoder == GetTypeEncoder(GetAt(m.root, path))
    IN  IF typeDecoder = None THEN RaiseIn(m, "PacketEncodingError")
        ELSE [m EXCEPT !.stack =
                 Append(m.stack, Frame(typeDecoder, FirstPc(typeDecoder), path))]

\* The chunk read(unpackSize) returns and what unpackIterator does with it:
\* struct.unpack fails on a chunk of another size.
ReadChunk(m, unpackSize) ==
    LET unpackChunk == Slice(m.s.bytes, m.s.pos, m.s.pos + unpackSize)
        after == [m EXCEPT !.s = read(m.s, unpackSize)]
    IN  IF Len(unpackChunk) # unpackSize
        THEN [st |-> "raise", chunk |-> <<>>,
              m |-> RaiseIn(after, "PacketEncodingError")]
        ELSE [st |-> "ok", chunk |-> unpackChunk, m |-> after]

\* A request for more bytes than the length of the frame the decoder is
\* locked on.
OverLimit(m, unpackSize) == m.obs.locked /\ unpackSize > m.obs.lockLen

\* (A faulty unpackIterator: the loop that waits for the bytes is missing)
unpackIteratorNoWait(m, packCode) ==
    LET unpackSize == calcsize(packCode)
    IN  IF m.max # NoMax /\ m.max # 0 /\ unpackSize > m.max
        THEN [st |-> "raise", chunk |-> <<>>,
              m |-> RaiseIn([m EXCEPT !.obs.capped = TRUE], "Exception")]
        ELSE ReadChunk(m, unpackSize)

\* Where the unpack request in progress started: the position now, unless
\* the generator is being resumed inside the request.
ReqStart(m) == IF m.obs.req.open THEN m.obs.req.pos ELSE tell(m.s)

\* The request of unpackSize bytes is suspended (open) or has ended with
\* result r.
Requested(m, unpackSize, open) ==
    [open |-> open, pos |-> ReqStart(m), size |-> unpackSize]

Completed(m, unpackSize, r) ==
    [r EXCEPT !.m.obs.req = Requested(m, unpackSize, FALSE),
              !.m.obs.exact = @ /\ (r.st = "ok"
                                    => tell(r.m.s) = ReqStart(m) + unpackSize)]

\* (A faulty unpackIterator: while it is short of bytes it takes the bytes
\* that are there)
unpackIteratorEager(m, packCode) ==
    LET unpackSize == calcsize(packCode)
    IN  IF m.max # NoMax /\ m.max # 0 /\ unpackSize > m.max
        THEN [st |-> "raise", chunk |-> <<>>,
              m |-> RaiseIn([m EXCEPT !.obs.capped = TRUE,
                                      !.obs.req.open = FALSE], "Exception")]
        ELSE IF available(m.s) < unpackSize
        THEN [st |-> "wait", chunk |-> <<>>,
              m |-> [m EXCEPT !.status = "wait", !.obs.yielded = TRUE,
                              !.s = read(m.s, unpackSize),
                              !.obs.req = Requested(m, unpackSize, TRUE)]]
        ELSE Completed(m, unpackSize, ReadChunk(m, unpackSize))

\* EncoderStreamAdapter.unpackIterator(packCode), one resumption of it:
\* [st, chunk, m] with st "raise" (the unpack size exceeds the limit, or
\* struct.unpack failed), "wait" (short of bytes: it yields) or "ok" (the
\* chunk is read and the position advanced).
unpackIterator(m, packCode) ==
    LET unpackSize == calcsize(packCode)
    IN  IF m.max # NoMax /\ m.max # 0 /\ unpackSize > m.max
        THEN [st |-> "raise", chunk |-> <<>>,
              m |-> RaiseIn([m EXCEPT !.obs.capped = TRUE,
                                      !.obs.req.open = FALSE], "Exception")]
        ELSE IF available(m.s) < unpackSize
        THEN [st |-> "wait", chunk |-> <<>>,
              m |-> [m EXCEPT !.status = "wait", !.obs.yielded = TRUE,
                              !.obs.over = @ \/ OverLimit(m, unpackSize),
                              !.obs.req = Requested(m, unpackSize, TRUE)]]
        ELSE Completed(m, unpackSize,
                 ReadChunk([m EXCEPT !.obs.over = @ \/ OverLimit(m, unpackSize)],
                           unpackSize))

\* IntrinsicTypeStandardEncoder.decodeIterator
IntrinsicStep(m, f) ==
    LET pc == getPackCode(f.enc, GetAt(m.root, f.path))
    IN  IF pc.err # "none" THEN RaiseIn(m, pc.err)
        ELSE LET u == unpackIterator(m, pc.code)
             IN  IF u.st # "ok" THEN u.m
                 ELSE Return([u.m EXCEPT !.root =
                         setData(m.root, f.path, struct_unpack(pc.code, u.chunk))])

\* (A faulty StringStep: the slot is emptied as soon as the length is read)
StringStepEarly(m, f) ==
    IF f.pc = "len"
    THEN LET u == unpackIterator(m, Code1("H"))
         IN  IF u.st # "ok" THEN u.m
             ELSE SetTop([u.m EXCEPT !.root = setData(m.root, f.path, <<>>)],
                         [f EXCEPT !.pc = "bytes", !.n = Num(u.chunk)])
    ELSE LET u == unpackIterator(m, CodeS(f.n))
             strDecoded == utf8_decode(u.chunk)
         IN  IF u.st # "ok" THEN u.m
             ELSE IF ~strDecoded.ok THEN RaiseIn(u.m, "UnicodeDecodeError")
             ELSE Return([u.m EXCEPT !.root =
                             setData(m.root, f.path, strDecoded.str)])

\* StringEncoder.decodeIterator
StringStep(m, f) ==
    IF f.pc = "len"
    THEN LET u == unpackIterator(m, Code1("H"))
         IN  IF u.st # "ok" THEN u.m
             ELSE SetTop(u.m, [f EXCEPT !.pc = "bytes", !.n = Num(u.chunk)])
    ELSE LET u == unpackIterator(m, CodeS(f.n))
             strDecoded == utf8_decode(u.chunk)
         IN  IF u.st # "ok" THEN u.m
             ELSE IF ~strDecoded.ok THEN RaiseIn(u.m, "UnicodeDecodeError")
             ELSE Return([u.m EXCEPT !.root =
                             setData(m.root, f.path, strDecoded.str)])

\* BufferEncoder.decodeIterator
BufferStep(m, f) ==
    IF f.pc = "len"
    THEN LET u == unpackIterator(m, Code1("Q"))
         IN  IF u.st # "ok" THEN u.m
             ELSE SetTop(u.m, [f EXCEPT !.pc = "bytes", !.n = Num(u.chunk)])
    ELSE LET u == unpackIterator(m, CodeS(f.n))
         IN  IF u.st # "ok" THEN u.m
             ELSE Return([u.m EXCEPT !.root = setData(m.root, f.path, u.chunk)])

\* (A faulty LookupField: the tag is ignored and the fields are taken in
\* declaration order)
LookupFieldInOrder(m, f, fieldID) ==
    GetAt(m.root, f.path).data.v.FIELDS[f.i + 1].name

\* fieldToTag.inverse()[fieldID] for a tag of the bijection
LookupField(m, f, fieldID) == Inverse(f.f2t)[fieldID]

\* PacketFieldsEncoder.decodeIterator
PacketFieldsStep(m, f) ==
    CASE f.pc = "init" ->
            LET root == initializeData(m.root, f.path)
                fieldToTag == processFields(GetAt(root, f.path).data.v.FIELDS)
            IN  IF fieldToTag.err # "none"
                THEN RaiseIn([m EXCEPT !.root = root], fieldToTag.err)
                ELSE SetTop([m EXCEPT !.root = root],
                            [f EXCEPT !.pc = "count", !.f2t = fieldToTag.f2t])
      [] f.pc = "count" ->
            LET u == unpackIterator(m, Code1("H"))
            IN  IF u.st # "ok" THEN u.m
                ELSE SetTop(u.m, [f EXCEPT !.pc = "loop", !.n = Num(u.chunk),
                                           !.i = 0])
      [] f.pc = "loop" ->
            IF f.i < f.n THEN SetTop(m, [f EXCEPT !.pc = "tag"]) ELSE Return(m)
      [] f.pc = "tag" ->
            LET u == unpackIterator(m, Code1("H"))
                fieldID == Num(u.chunk)
            IN  IF u.st # "ok" THEN u.m
                ELSE IF fieldID \notin DOMAIN Inverse(f.f2t)
                THEN RaiseIn([u.m EXCEPT !.obs.unknownTag = TRUE], "KeyError")
                ELSE CallDecode(SetTop(u.m, [f EXCEPT !.pc = "in_field"]),
                         Append(f.path, Key(LookupField(u.m, f, fieldID), 0)))
      [] f.pc = "field_done" ->
            SetTop(m, [f EXCEPT !.pc = "loop", !.i = f.i + 1])

\* (A faulty ResetList: a list that holds elements keeps them)
KeepList(root, path) ==
    IF GetAt(root, path).data = Unset THEN setData(root, path, <<>>) ELSE root

\* listType.setData([])
ResetList(root, path) == setData(root, path, <<>>)

\* ListEncoder.decodeIterator
ListStep(m, f) ==
    CASE f.pc = "size" ->
            LET u == unpackIterator(m, Code1("H"))
            IN  IF u.st # "ok" THEN u.m
                ELSE SetTop([u.m EXCEPT !.root = ResetList(m.root, f.path)],
                            [f EXCEPT !.pc = "loop", !.n = Num(u.chunk), !.i = 0])
      [] f.pc = "loop" ->
            IF f.i < f.n
            THEN LET root == appendUnset(m.root, f.path)
                 IN  CallDecode(
                         SetTop([m EXCEPT !.root = root],
                                [f EXCEPT !.pc = "in_elem"]),
                         Append(f.path,
                                Key("", Len(GetAt(root, f.path).data.v))))
            ELSE Return(m)
      [] f.pc = "elem_done" ->
            SetTop(m, [f EXCEPT !.pc = "loop", !.i = f.i + 1])

\* (A faulty Resync: the start advances by two bytes)
ResyncSkip(m, f) ==
    SetTop([m EXCEPT !.s = seek(m.s, f.start + 2)],
           [f EXCEPT !.pc = "plen", !.start = f.start + 2])

\* (A faulty Resync: a length mismatch raises, as the raise the source has
\* commented out would)
ResyncRaise(m, f) == RaiseIn(m, "Exception")

\* (A faulty Resync: the start advances but the stream is not rewound)
ResyncNoSeek(m, f) ==
    SetTop(m, [f EXCEPT !.pc = "plen", !.start = f.start + 1])

\* The length-mismatch branch of PacketEncoder.decodeIterator: the start
\* position advances by one byte and the stream is rewound to it.
Resync(m, f) ==
    SetTop([m EXCEPT !.s = seek(m.s, f.start + 1)],
           [f EXCEPT !.pc = "plen", !.start = f.start + 1])

\* PacketEncoder.decodeIterator
PacketStep(m, f) ==
    CASE f.pc = "init" ->
            SetTop(m, [f EXCEPT !.pc = "plen", !.start = tell(m.s)])
      [] f.pc = "plen" ->
            LET u == unpackIterator(m, Code1("Q"))
            IN  IF u.st # "ok" THEN u.m
                ELSE SetTop([u.m EXCEPT !.obs.tried =
                                Append(m.obs.tried,
                                       [start |-> f.start, at |-> tell(m.s)])],
                            [f EXCEPT !.pc = "pchk", !.plen = u.chunk])
      [] f.pc = "pchk" ->
            LET u == unpackIterator(m, Code1("Q"))
                packetLengthCompare == XorOnes(u.chunk)
            IN  IF u.st # "ok" THEN u.m
                ELSE IF f.plen # packetLengthCompare
                THEN Resync(u.m, f)
                ELSE SetTop([u.m EXCEPT !.max = Num(f.plen),
                                        !.obs.locked = TRUE,
                                        !.obs.lockStart = f.start,
                                        !.obs.lockLen = Num(f.plen)],
                            [f EXCEPT !.pc = "nameLen"])
      [] f.pc = "nameLen" ->
            LET u == unpackIterator(m, Code1("B"))
            IN  IF u.st # "ok" THEN u.m
                ELSE SetTop(u.m, [f EXCEPT !.pc = "name", !.n = Num(u.chunk)])
      [] f.pc = "name" ->
            LET u == unpackIterator(m, CodeS(f.n))
                name == utf8_decode(u.chunk)
            IN  IF u.st # "ok" THEN u.m
                ELSE IF ~name.ok THEN RaiseIn(u.m, "UnicodeDecodeError")
                ELSE SetTop(u.m, [f EXCEPT !.pc = "versionLen", !.name = name.str])
      [] f.pc = "versionLen" ->
            LET u == unpackIterator(m, Code1("B"))
            IN  IF u.st # "ok" THEN u.m
                ELSE SetTop(u.m, [f EXCEPT !.pc = "version", !.n = Num(u.chunk)])
      [] f.pc = "version" ->
            LET u == unpackIterator(m, CodeS(f.n))
                str == utf8_decode(u.chunk)
                version == VersionFromString(str.str)
                packetType == getDefinition(f.name, version.version)
            IN  IF u.st # "ok" THEN u.m
                ELSE IF ~str.ok THEN RaiseIn(u.m, "UnicodeDecodeError")
                ELSE IF ~version.ok THEN RaiseIn(u.m, "ValueError")
                ELSE IF packetType = None
                THEN SetTop(u.m, [f EXCEPT !.pc = "tail", !.found = FALSE])
                ELSE [u.m EXCEPT
                        !.root = setData(m.root, f.path, New(packetType)),
                        !.stack = Append(
                            [m.stack EXCEPT ![Len(m.stack)] =
                                [f EXCEPT !.pc = "in_body", !.found = TRUE]],
                            Frame("PacketFieldsEncoder", "init", f.path))]
      [] f.pc = "tail" ->
            LET bytesUsed == tell(m.s) - f.start
                unreadBytes == Num(f.plen) - bytesUsed
            IN  IF unreadBytes # 0
                THEN RaiseIn([m EXCEPT !.s = read(m.s, unreadBytes)], "Exception")
                ELSE IF ~f.found THEN RaiseIn(m, "Exception")
                ELSE Return(m)

\* One step of the innermost generator.
Step(m) ==
    LET f == Top(m)
    IN  CASE IsIntrinsic(f.enc) -> IntrinsicStep(m, f)
          [] f.enc = "StringEncoder" -> StringStep(m, f)
          [] f.enc = "BufferEncoder" -> BufferStep(m, f)
          [] f.enc = "PacketFieldsEncoder" -> PacketFieldsStep(m, f)
          [] f.enc = "ListEncoder" -> ListStep(m, f)
          [] f.enc = "PacketEncoder" -> PacketStep(m, f)

\* next() on the generator: it runs until it yields, returns or raises.
RECURSIVE RunGen(_)
RunGen(m) == IF m.status # "run" THEN m ELSE RunGen(Step(m))

\* PlaygroundStandardPacketEncoder.decodeIterator(stream, fieldType), up to
\* its first yield: Adapt wraps the stream in a new adapter (no size limit).
decodeIterator(s, fieldType) ==
    RunGen(CallDecode([status |-> "run", err |-> "none", stack |-> <<>>,
                       s |-> s, max |-> NoMax, root |-> fieldType,
                       obs |-> NoObs], <<>>))

\* Resuming a generator that yielded, on the stream as it is now.
Resume(m, s) == RunGen([m EXCEPT !.status = "run", !.s = s])

----------------------------------------------------------------------------
(* Field values the behaviours draw from *)

\* How many bytes may already be in the stream before an encode.
MaxPrefix == 2

\* An instance of cls whose raw fields hold the data slots vals[name].
WithValues(cls, vals) ==
    Instance(cls, ClassIdentifier(cls), ClassVersion(cls), ClassFIELDS(cls),
             [n \in FieldNames(ClassFIELDS(cls)) |->
                 [DeclOf(ClassFIELDS(cls), n) EXCEPT !.data = vals[n]]])

\* The data slot of a list whose items hold the numbers of xs.
ListData(elem, xs) == Val([i \in 1..Len(xs) |-> [elem EXCEPT !.data = Val(xs[i])]])

MaxValues ==
    { <<>>, <<255>>, <<1, 0>>, <<255, 255>>, <<1, 0, 0>>,
      <<255, 255, 255, 255>>, <<1, 0, 0, 0, 0>>,
      <<255, 255, 255, 255, 255, 255, 255, 255>>,
      <<1, 0, 0, 0, 0, 0, 0, 0, 0>>, <<2, 0, 0, 0, 0, 0, 0, 0, 7>> }

IntAttrs == {NoAttrs} \cup {"MaxValue" :> mv : mv \in MaxValues}

IntFields ==
    { Field(cls, at, d) : cls \in {"UINT", "INT"}, at \in IntAttrs,
                          d \in {Unset, Val(0), Val(10), Val(-10), Val(255), Val(70000)} }

BoolFields == { Field("BOOL", NoAttrs, d) : d \in {Unset, Val(TRUE), Val(FALSE)} }

\* "", "A", "AZ", "é", "éA", "€", "A€", a lone surrogate
Strings ==
    { <<>>, <<65>>, <<65, 90>>, <<233>>, <<233, 65>>, <<8364>>, <<65, 8364>>,
      <<55296>> }

StringFields == { Field("StringFieldType", NoAttrs, Val(str)) : str \in Strings }

BufferFields ==
    { Field("BufferFieldType", NoAttrs, Val(b)) : b \in {<<>>, <<0, 255, 128>>} }

U8Elem == Field("UINT", U8, Unset)

ListFields ==
    { ListField(U8Elem, NoAttrs, d) :
        d \in {Unset, ListData(U8Elem, <<>>), ListData(U8Elem, <<0, 255>>)} }

SomeFieldsValues ==
    { WithValues("SomeFields",
          [n \in {"field1", "field2", "text", "list1"} |->
              CASE n = "field1" -> f1 [] n = "field2" -> f2
                [] n = "text" -> tx [] n = "list1" -> l1]) :
        f1 \in {Unset, Val(0), Val(255)},
        f2 \in {Unset, Val(500)},
        tx \in {Unset, Val(<<65>>), Val(<<233>>)},
        l1 \in {Unset, ListData(U8Elem, <<>>), ListData(U8Elem, <<0, 255>>)} }

GroupFields == { ComplexField("SomeFields", NoAttrs, Val(g)) : g \in SomeFieldsValues }

NestedFields ==
    { ComplexField("OtherFields", NoAttrs,
          Val(WithValues("OtherFields",
                  [n \in {"inner", "flag"} |->
                      IF n = "inner" THEN Val(g) ELSE fl]))) :
        g \in { x \in SomeFieldsValues :
                  /\ x.raw["field2"].data = Unset
                  /\ x.raw["list1"].data = Unset },
        fl \in {Unset, Val(TRUE)} }

DemoPacketValues ==
    { WithValues("DemoPacket", [n \in {"a", "b"} |-> IF n = "a" THEN a ELSE b]) :
        a \in {Unset, Val(0), Val(5)}, b \in {Unset, Val(-1), Val(7)} }

PacketFieldObjects ==
    { ComplexField("DemoPacket", NoAttrs, Val(p)) : p \in DemoPacketValues }

OpaqueFields == { Field("OpaqueFieldType", NoAttrs, Val(0)) }

\* The target a caller hands to decode for a value of the same declaration.
FreshTarget(field) == [field EXCEPT !.data = Unset]

----------------------------------------------------------------------------
(* The generator as the state variables hold it *)

Idle == [status |-> "idle", err |-> "none", stack |-> <<>>, obs |-> NoObs]

Machine ==
    [status |-> gen.status, err |-> gen.err, stack |-> gen.stack,
     s |-> Stream(stream, pos), max |-> max_size, root |-> target,
     obs |-> gen.obs]

\* The state variables take the machine's state.
Store(m) ==
    /\ gen' = [status |-> m.status, err |-> m.err, stack |-> m.stack,
               obs |-> m.obs]
    /\ pos' = m.s.pos
    /\ max_size' = m.max
    /\ target' = m.root

----------------------------------------------------------------------------
(* Encode and decode of one field value (SpecCodec): a caller encodes a    *)
(* field into a stream that may hold bytes already, the bytes may be       *)
(* altered before they are read, and a caller decodes them from the place  *)
(* the encode started at into a fresh target of the same declaration.      *)

\* The value bytes may be altered to.
TamperByte == 9

NothingYet == Field("BOOL", NoAttrs, Unset)

InitCodec ==
    /\ mode = "codec"
    /\ \E n \in 0..MaxPrefix :
         /\ stream = [i \in 1..n |-> 170]
         /\ pos \in 0..n
    /\ max_size = NoMax
    /\ gen = Idle
    /\ target = NothingYet
    /\ wire = <<>>
    /\ hist = [phase |-> "init", input |-> NothingYet, before |-> <<>>,
               start |-> 0, end |-> 0, encErr |-> "none", tampered |-> FALSE,
               entries |-> <<>>, order |-> <<>>]

\* The entries PacketFieldsEncoder.encode writes for a group after the count,
\* one per field that has data, in declaration order, as encodes of their
\* own into an empty stream: the tag is packed, then the field is encoded.
\* No entries for a field that is not a group.
Entries(fieldType) ==
    IF GetTypeEncoder(fieldType) # "PacketFieldsEncoder" THEN <<>>
    ELSE LET packetFields == fieldType.data.v
             f2t == processFields(packetFields.FIELDS).f2t
             names == CollectFields(packetFields, 1, <<>>).names
         IN  [i \in 1..Len(names) |->
                 [s |-> pack(Stream(<<>>, 0), Code1("H"), <<f2t[names[i]]>>).s,
                  fieldType |-> packetFields.raw[names[i]]]]

\* encoder.encode(stream, fieldType) for each of a sequence of encodes.
EncodeEach(encodes) ==
    [k \in 1..Len(encodes) |-> encode(encodes[k].s, encodes[k].fieldType)]

\* encoder.encode(stream, fieldType); the history keeps the entries of a
\* group as the encoder writes them.
EncodeField(f) ==
    /\ mode = "codec"
    /\ hist.phase = "init"
    /\ \E rs \in {EncodeEach(<<[s |-> Stream(stream, pos), fieldType |-> f]>>
                              \o Entries(f))} :
           /\ stream' = rs[1].s.bytes
           /\ pos' = rs[1].s.pos
           /\ hist' = [phase |-> "encoded", input |-> f, before |-> stream,
                       start |-> pos, end |-> rs[1].s.pos,
                       encErr |-> rs[1].err, tampered |-> FALSE,
                       entries |-> [k \in 1..(Len(rs) - 1) |-> rs[k + 1].s.bytes],
                       order |-> <<>>]
    /\ UNCHANGED <<mode, max_size, gen, target, wire>>

\* One byte of the encoding is altered before it is read.
Tamper(j) ==
    /\ mode = "codec"
    /\ hist.phase = "encoded"
    /\ hist.encErr = "none"
    /\ ~hist.tampered
    /\ j \in (hist.start + 1)..pos
    /\ stream[j] # TamperByte
    /\ stream' = [stream EXCEPT ![j] = TamperByte]
    /\ hist' = [hist EXCEPT !.tampered = TRUE]
    /\ UNCHANGED <<mode, pos, max_size, gen, target, wire>>

\* The permutations of 1..n.
Perms(n) == {p \in [1..n -> 1..n] : \A i, j \in 1..n : p[i] = p[j] => i = j}

RECURSIVE Concat(_, _)
Concat(seqs, i) == IF i > Len(seqs) THEN <<>> ELSE seqs[i] \o Concat(seqs, i + 1)

\* The group body with its entries in the order perm: the count, then entry
\* perm[1], perm[2], ...
BodyInOrder(entries, perm) ==
    IntBytes(Len(entries), 2)
    \o Concat([i \in 1..Len(entries) |-> entries[perm[i]]], 1)

\* The orders the entries of a group can be put in, for every number of
\* entries a group of this model has.
Orders ==
    UNION { Perms(n) : n \in 0..Len(ClassFIELDS("SomeFields")) }
         \cup UNION { Perms(n) : n \in 0..Len(ClassFIELDS("OtherFields")) }

\* The entries of an encoded group are put in another order before they are
\* read, as a peer that writes its fields in its own order sends them.
Reorder(perm) ==
    /\ mode = "codec"
    /\ hist.phase = "encoded"
    /\ hist.encErr = "none"
    /\ ~hist.tampered
    /\ GetTypeEncoder(hist.input) = "PacketFieldsEncoder"
    /\ Len(perm) = Len(hist.entries)
    /\ stream' = Slice(stream, 0, hist.start) \o BodyInOrder(hist.entries, perm)
    /\ hist' = [hist EXCEPT !.tampered = TRUE, !.order = perm]
    /\ UNCHANGED <<mode, pos, max_size, gen, target, wire>>

\* stream.seek(start); encoder.decode(stream, fresh target): the generator
\* is driven until it returns or raises; if it yields for want of bytes the
\* loop of decode never ends and the generator stays suspended.
DecodeField ==
    /\ mode = "codec"
    /\ hist.phase = "encoded"
    /\ hist.encErr = "none"
    /\ \E m \in {decodeIterator(Stream(stream, hist.start),
                                 FreshTarget(hist.input))} : Store(m)
    /\ hist' = [hist EXCEPT !.phase = "decoded"]
    /\ UNCHANGED <<mode, stream, wire>>

NextCodec ==
    \/ \E f \in IntFields : EncodeField(f)
    \/ \E f \in BoolFields : EncodeField(f)
    \/ \E f \in StringFields : EncodeField(f)
    \/ \E f \in BufferFields : EncodeField(f)
    \/ \E f \in ListFields : EncodeField(f)
    \/ \E f \in GroupFields : EncodeField(f)
    \/ \E f \in NestedFields : EncodeField(f)
    \/ \E f \in PacketFieldObjects : EncodeField(f)
    \/ \E f \in OpaqueFields : EncodeField(f)
    \/ \E j \in 1..64 : Tamper(j)
    \/ \E perm \in Orders : Reorder(perm)
    \/ DecodeField

SpecCodec == InitCodec /\ [][NextCodec]_vars

----------------------------------------------------------------------------
(* Properties of encode and decode of one value (SpecCodec) *)

\* The bytes the encode wrote.
Written == Slice(stream, hist.start, hist.end)

EncodedBy(enc) ==
    /\ mode = "codec"
    /\ hist.phase # "init"
    /\ GetTypeEncoder(hist.input) = enc

HeaderSize(packet) ==
    16 + 1 + Len(Utf8Bytes(packet.DEFINITION_IDENTIFIER))
       + 1 + Len(Utf8Bytes(packet.DEFINITION_VERSION))

\* C3 (frame integrity): after a successful PacketEncoder.encode started at
\* position s, the 8 bytes at s are L = end - s in big-endian, the 8 bytes at
\* s+8 are its bitwise complement, neither is the zero placeholder, and the
\* frame's L bytes are all in the stream.
C3_FrameIntegrity ==
    (EncodedBy("PacketEncoder") /\ hist.encErr = "none" /\ ~hist.tampered)
    => LET s == hist.start
           L == hist.end - s
       IN  /\ Len(stream) >= s + L
           /\ L >= 16
           /\ Slice(stream, s, s + 8) = IntBytes(L, 8)
           /\ \A i \in 1..8 : stream[s + i] + stream[s + 8 + i] = 255
           /\ Slice(stream, s, s + 8) # Zeros(8)
           /\ Slice(stream, s + 8, s + 16) # Zeros(8)

C3_Witness ==
    /\ EncodedBy("PacketEncoder")
    /\ hist.phase = "encoded"
    /\ hist.encErr = "none"
    /\ ~hist.tampered
    /\ hist.start = 1
    /\ hist.end - hist.start = 30
    /\ Len(hist.before) = 2

\* Some directly declared field is unset and not marked optional.
HasUnsetRequired(packetFields) ==
    \E i \in 1..Len(packetFields.FIELDS) :
        LET rawField == packetFields.raw[packetFields.FIELDS[i].name]
        IN  rawField.data = Unset /\ GetAttribute(rawField, "Optional", FALSE) # TRUE

\* C7: encoding a group with an unset field that is not optional fails with
\* PacketEncodingError before the group encoder writes anything: the stream is
\* as it was for a top-level group, and holds only the frame header (no count)
\* for a packet body.
C7_UnsetRequiredFailsBeforeCount ==
    /\ (EncodedBy("PacketFieldsEncoder") /\ hist.input.data # Unset
        /\ HasUnsetRequired(hist.input.data.v))
       => /\ hist.encErr = "PacketEncodingError"
          /\ stream = hist.before
          /\ hist.end = hist.start
    /\ (EncodedBy("PacketEncoder") /\ hist.input.data # Unset
        /\ HasUnsetRequired(hist.input.data.v))
       => /\ hist.encErr = "PacketEncodingError"
          /\ hist.end - hist.start = HeaderSize(hist.input.data.v)

C7_Witness ==
    /\ EncodedBy("PacketFieldsEncoder")
    /\ hist.input.inner = "SomeFields"
    /\ HasUnsetRequired(hist.input.data.v)
    /\ hist.input.data.v.raw["field2"].data # Unset
    /\ hist.encErr = "PacketEncodingError"
    /\ Len(hist.before) = 2

\* C8: whenever StringEncoder.encode succeeds on a string s, what it wrote is
\* the 2-byte length of the UTF-8 encoding of s followed by exactly those bytes.
C8_StringLengthIsByteLength ==
    (EncodedBy("StringEncoder") /\ hist.encErr = "none")
    => LET utf8 == Utf8Bytes(hist.input.data.v)
       IN  Written = IntBytes(Len(utf8), 2) \o utf8

\* The width the claim assigns to a MaxValue: the smallest of 1, 2, 4, 8
\* bytes whose range exceeds it; 0 when there is none.
ClaimedWidth(maxValue) ==
    IF Len(maxValue) <= 1 THEN 1
    ELSE IF Len(maxValue) <= 2 THEN 2
    ELSE IF Len(maxValue) <= 4 THEN 4
    ELSE IF Len(maxValue) <= 8 THEN 8
    ELSE 0

\* C9 (width determinism): for a UINT or INT field, encode writes, and decode
\* reads, exactly the number of bytes the declared MaxValue determines (1, 2,
\* 4 or 8; 4 by default), whatever the value; a MaxValue of 2^64 or more fails
\* with PacketEncodingError, and no smaller MaxValue does.
C9_WidthDeterminism ==
    (mode = "codec" /\ hist.phase # "init" /\ hist.input.cls \in {"UINT", "INT"})
    => LET w == ClaimedWidth(GetAttribute(hist.input, "MaxValue",
                                          <<255, 255, 255, 255>>))
       IN  /\ w = 0 => hist.encErr = "PacketEncodingError" /\ hist.end = hist.start
           /\ w # 0 => hist.encErr \in {"none", "struct.error"}
           /\ hist.encErr = "none" => w \in {1, 2, 4, 8} /\ hist.end - hist.start = w
           /\ hist.encErr # "none" => hist.end = hist.start
           /\ hist.phase = "decoded"
              => gen.status = "done" /\ pos - hist.start = w
           /\ ("MaxValue" \notin DOMAIN hist.input.attrs /\ hist.encErr = "none")
              => hist.end - hist.start = 4

C9_Witness ==
    /\ mode = "codec"
    /\ hist.phase = "decoded"
    /\ hist.input.cls = "INT"
    /\ "MaxValue" \in DOMAIN hist.input.attrs
    /\ hist.input.attrs["MaxValue"] = <<1, 0>>
    /\ hist.input.data = Val(-10)
    /\ hist.end - hist.start = 2
    /\ pos = hist.end

\* C6: a group that encodes, decoded from the bytes it encoded to into a fresh
\* target of the same declaration, gives back every field's data slot: equal
\* where it was set, unset where it was unset.
C6_GroupRoundTrip ==
    (EncodedBy("PacketFieldsEncoder") /\ hist.phase = "decoded" /\ ~hist.tampered)
    => /\ gen.status = "done"
       /\ \A n \in DOMAIN hist.input.data.v.raw :
            target.data.v.raw[n].data = hist.input.data.v.raw[n].data

\* C10: a group decode that meets a tag that is not in the bijection fails
\* with PacketEncodingError.
C10_UnknownTagIsEncodingError ==
    (mode = "codec" /\ hist.phase = "decoded" /\ gen.obs.unknownTag)
    => gen.status = "fail" /\ gen.err = "PacketEncodingError"


----------------------------------------------------------------------------
(* Framed packets arriving on a stream (Spec): a sender encodes packets    *)
(* one after the other onto the wire, the transport writes the bytes of    *)
(* the wire into the receiver's stream piece by piece, and a caller runs   *)
(* packet decodes on that stream, one after another, each into a fresh     *)
(* target.  Four families of wires: one valid frame ("resume"), garbage    *)
(* followed by a valid frame ("resync"), two frames of which the first     *)
(* may have one corrupted byte ("frames"), one frame of a packet type the  *)
(* receiver has no definition of ("unknown"), and bytes that no sender     *)
(* encoded ("noise").                                                      *)

\* How many garbage bytes may precede a frame.
MaxGarbage == 3

\* The bytes garbage is made of: 228 = 255 - 27 pairs with the low length
\* byte of a 27-byte frame, so some garbage completes a (length, ~length)
\* pair before the frame starts.
GarbageBytes == {0, 228}

\* The values a corrupted byte takes.
CorruptBytes == {0, 2, 255}

Garbage == UNION { [1..n -> GarbageBytes] : n \in 1..MaxGarbage }

\* Garbage that is a frame header with nothing behind it: a 64-bit length
\* followed by its complement, for the lengths 0 and 1.
StrayHeaders == { IntBytes(L, 8) \o XorOnes(IntBytes(L, 8)) : L \in {0, 1} }

\* How many bytes of noise a wire carries at most: enough for the candidate
\* starts 0, 1 and 2 to have both their length words on the stream.
MaxNoise == 18

\* What noise repeats: bytes of garbage, which never pair to 255, and the
\* header of a 27-byte frame, whose two length words pass the check.
NoisePatterns ==
    {<<0>>, <<228>>, <<0, 228>>, IntBytes(27, 8) \o XorOnes(IntBytes(27, 8))}

\* The wires that carry noise only.
NoiseWires ==
    { [i \in 1..n |-> pat[((i - 1) % Len(pat)) + 1]] :
        n \in 1..MaxNoise, pat \in NoisePatterns }

\* The target a caller hands to a packet decode.
PacketTarget == ComplexField("DemoPacket", NoAttrs, Unset)

Packet(a, b) ==
    ComplexField("DemoPacket", NoAttrs,
        Val(WithValues("DemoPacket",
                [n \in {"a", "b"} |-> IF n = "a" THEN a ELSE b])))

ShortPacket == Packet(Val(5), Unset)

LongPacket == Packet(Val(0), Val(7))

\* A packet of a version of DemoPacket that the receiver's definitions store
\* does not hold.
NewerPacket ==
    ComplexField("DemoPacket", NoAttrs,
        Val([WithValues("DemoPacket",
                 [n \in {"a", "b"} |-> IF n = "a" THEN Val(5) ELSE Unset])
             EXCEPT !.DEFINITION_VERSION = <<50, 46, 48>>]))

\* The number of frames a wire of the family carries.
FramesOf(family) ==
    IF family = "frames" THEN 2 ELSE IF family = "noise" THEN 0 ELSE 1

\* The packets the sender of a family draws from.
PacketsOf(family) ==
    IF family = "resume" THEN PacketFieldObjects
    ELSE IF family = "unknown" THEN {NewerPacket}
    ELSE {ShortPacket, LongPacket}

\* The sender has encoded all its packets onto the wire.
Built == Len(hist.expect) = FramesOf(mode)

\* All the bytes of the behaviour: those written into the stream and those
\* still on the wire.
Full == stream \o wire

\* hist: the number of garbage bytes at the head of the wire (k), the
\* packets its frames were encoded from (expect), the index of the corrupted
\* frame (bad, 0: none), the size of the pieces the transport writes (unit),
\* the outcomes of the decodes that ended (results), and whether bytes were
\* written since the suspended generator last ran (stale), and the position
\* of the sender's stream (wpos).
Init ==
    /\ mode \in {"resume", "resync", "frames", "unknown", "noise"}
    /\ stream = <<>>
    /\ pos = 0
    /\ max_size = NoMax
    /\ gen = Idle
    /\ target = PacketTarget
    /\ wire = <<>>
    /\ hist = [k |-> 0, expect |-> <<>>, bad |-> 0, unit |-> 1,
               results |-> <<>>, stale |-> FALSE, wpos |-> 0]

\* Garbage gets on the wire before the first frame.
Garble(g) ==
    /\ mode = "resync"
    /\ wire = <<>>
    /\ stream = <<>>
    /\ wire' = g
    /\ hist' = [hist EXCEPT !.k = Len(g), !.wpos = Len(g)]
    /\ UNCHANGED <<mode, stream, pos, max_size, gen, target>>

\* Noise gets on a wire that carries no frame.
SendNoise(g) ==
    /\ mode = "noise"
    /\ wire = <<>>
    /\ stream = <<>>
    /\ wire' = g
    /\ hist' = [hist EXCEPT !.k = Len(g), !.wpos = Len(g)]
    /\ UNCHANGED <<mode, stream, pos, max_size, gen, target>>

\* The sender encodes packet p on the wire, at the position its last write
\* left: encoder.encode(wire, p).
SendPacket(p) ==
    /\ stream = <<>>
    /\ ~Built
    /\ mode = "resync" => hist.k > 0
    /\ \A i \in 1..Len(hist.expect) : hist.expect[i] # p
    /\ \E r \in {encode(Stream(wire, hist.wpos), p)} :
           /\ r.err = "none"
           /\ wire' = r.s.bytes
           /\ hist' = [hist EXCEPT
                         !.expect = Append(@, p),
                         !.wpos = r.s.pos,
                         !.unit = IF mode = "frames" /\ hist.expect = <<>>
                                  THEN Len(r.s.bytes) ELSE @]
    /\ UNCHANGED <<mode, stream, pos, max_size, gen, target>>

\* One byte of the first of two frames is changed on the wire.
Corrupt(j, v) ==
    /\ mode = "frames"
    /\ stream = <<>>
    /\ Built
    /\ hist.bad = 0
    /\ j \in 1..hist.unit
    /\ wire[j] # v
    /\ wire' = [wire EXCEPT ![j] = v]
    /\ hist' = [hist EXCEPT !.bad = 1]
    /\ UNCHANGED <<mode, stream, pos, max_size, gen, target>>

\* The transport writes the next n bytes of the wire at the end of the
\* stream; the read position stays.
Feed(n) ==
    /\ Built
    /\ n \in 1..Len(wire)
    /\ stream' = stream \o SubSeq(wire, 1, n)
    /\ wire' = SubSeq(wire, n + 1, Len(wire))
    /\ hist' = [hist EXCEPT !.stale = (gen.status = "wait")]
    /\ UNCHANGED <<mode, pos, max_size, gen, target>>

\* g = encoder.decodeIterator(stream, target); next(g)
StartDecode ==
    /\ gen.status = "idle"
    /\ \E m \in {decodeIterator(Stream(stream, pos), PacketTarget)} : Store(m)
    /\ hist' = [hist EXCEPT !.stale = FALSE]
    /\ UNCHANGED <<mode, stream, wire>>

\* next(g) on a generator that yielded DECODE_WAITING_FOR_STREAM
ResumeDecode ==
    /\ gen.status = "wait"
    /\ \E m \in {Resume(Machine, Stream(stream, pos))} : Store(m)
    /\ hist' = [hist EXCEPT !.stale = FALSE]
    /\ UNCHANGED <<mode, stream, wire>>

\* The generator ended: the caller takes its outcome (the value, or the
\* exception) and is ready to decode the next packet into a fresh target.
Deliver ==
    /\ gen.status \in {"done", "fail"}
    /\ hist' = [hist EXCEPT !.results =
                   Append(@, [status |-> gen.status, err |-> gen.err,
                              value |-> target, from |-> gen.obs.lockStart,
                              to |-> pos])]
    /\ gen' = Idle
    /\ target' = PacketTarget
    /\ max_size' = NoMax
    /\ UNCHANGED <<mode, stream, pos, wire>>

Next ==
    \/ \E g \in Garbage \cup StrayHeaders : Garble(g)
    \/ \E g \in NoiseWires : SendNoise(g)
    \/ \E p \in PacketsOf(mode) : SendPacket(p)
    \/ \E j \in 1..64, v \in CorruptBytes : Corrupt(j, v)
    \/ \E n \in {Min(hist.unit, Len(wire)), Len(wire)} : Feed(n)
    \/ StartDecode
    \/ ResumeDecode
    \/ Deliver

Spec == Init /\ [][Next]_vars

----------------------------------------------------------------------------
(* Properties of decodes on an arriving stream (Spec) *)

\* The wire is built and the first decode of the behaviour is the one in
\* gen.
FirstDecode == Built /\ hist.results = <<>> /\ gen.status # "idle"

\* Decoding all the bytes in one pass.
OnePass == decodeIterator(Stream(Full, 0), PacketTarget)

\* C1 (resumability): while the stream holds only a proper prefix of a valid
\* frame the decoder has yielded and is suspended: it has neither returned
\* nor failed; once the rest is written and the generator resumed it
\* returns, with the value and the stream position of a decode of the whole
\* frame in one pass.
C1_Resumability ==
    (mode = "resume" /\ FirstDecode) =>
        /\ gen.status # "fail"
        /\ wire # <<>> => (gen.status = "wait" /\ gen.obs.yielded)
        /\ (wire = <<>> /\ ~hist.stale) => gen.status = "done"
        /\ gen.status = "done" =>
              /\ OnePass.status = "done"
              /\ target = OnePass.root
              /\ pos = OnePass.s.pos

\* A decode that started on a proper prefix, yielded, was resumed after the
\* rest arrived and returned the packet.
C1_Witness ==
    /\ mode = "resume"
    /\ FirstDecode
    /\ gen.status = "done"
    /\ gen.obs.yielded
    /\ target = hist.expect[1]
    /\ target.data.v.raw["b"].data = Val(7)
    /\ pos = Len(stream)

\* The length-check equation at offset o of bytes b: the u64 at o equals
\* the u64 at o + 8 XOR all-ones.
LengthCheckAt(b, o) ==
    /\ o + 16 <= Len(b)
    /\ \A i \in 1..8 : b[o + i] + b[o + 8 + i] = 255

NoFalseLock == \A o \in 0..(hist.k - 1) : ~LengthCheckAt(Full, o)

\* C2 (resync): with k garbage bytes before a valid frame, none of the
\* offsets 0..k-1 satisfying the length-check equation, the decode started
\* at position 0 never fails, returns once all bytes are written and it has
\* been resumed, and returns the original packet with the position at
\* k + len(frame).
C2_Resync ==
    (mode = "resync" /\ FirstDecode /\ NoFalseLock) =>
        /\ gen.status # "fail"
        /\ (wire = <<>> /\ ~hist.stale) => gen.status = "done"
        /\ gen.status = "done" =>
              /\ target = hist.expect[1]
              /\ pos = Len(Full)
              /\ gen.obs.lockStart = hist.k
              /\ pos - hist.k = gen.obs.lockLen

\* The decoder skipped MaxGarbage garbage bytes and returned the packet.
C2_Witness ==
    /\ mode = "resync"
    /\ FirstDecode
    /\ NoFalseLock
    /\ hist.k = MaxGarbage
    /\ gen.status = "done"
    /\ gen.obs.yielded
    /\ target = hist.expect[1]
    /\ pos = hist.k + 27

\* A failure of the frame: raised by the frame-tail fixup or for an
\* unresolved packet type (Exception), or a read the size limit rejected.
FrameLevelFailure ==
    /\ gen.status = "fail"
    /\ gen.obs.locked
    /\ gen.err = "Exception" \/ gen.obs.capped

\* C4: when a decode that locked on a frame of start p and declared length
\* L ends in a frame-level failure, the stream position is p + L.
C4_FailureLeavesNextBoundary ==
    FrameLevelFailure => pos = gen.obs.lockStart + gen.obs.lockLen

\* All bytes are written, the decoder has seen them all and is suspended for
\* more: no further packet comes out of this wire.
Quiescent == Built /\ wire = <<>> /\ gen.status = "wait" /\ ~hist.stale

Delivered(p) ==
    \E i \in 1..Len(hist.results) :
        /\ hist.results[i].status = "done"
        /\ hist.results[i].value = p

\* C5 (at most one packet lost): when one byte of the first of two frames
\* is corrupted, repeated decodes return the packet of the second frame.
C5_AtMostOnePacketLost ==
    (mode = "frames" /\ hist.bad = 1 /\ Quiescent) => Delivered(hist.expect[2])

\* The decode of the encoded group with its entries in declaration order.
InDeclarationOrder ==
    decodeIterator(
        Stream(Slice(stream, 0, hist.start)
               \o BodyInOrder(hist.entries,
                              [i \in 1..Len(hist.order) |-> i]),
               hist.start),
        FreshTarget(hist.input))

\* C11 (order independence of group decode): a group body whose entries carry
\* distinct known tags decodes to the same field values in whatever order the
\* entries come, and every field without an entry stays unset.
C11_OrderIndependence ==
    (mode = "codec" /\ hist.phase = "decoded" /\ hist.order # <<>>
     /\ InDeclarationOrder.status = "done")
    => /\ gen.status = "done"
       /\ target = InDeclarationOrder.root
       /\ pos = InDeclarationOrder.s.pos
       /\ \A n \in DOMAIN hist.input.data.v.raw :
            hist.input.data.v.raw[n].data = Unset
            => target.data.v.raw[n].data = Unset

C11_Witness ==
    /\ mode = "codec"
    /\ hist.phase = "decoded"
    /\ hist.order = <<3, 1, 2>>
    /\ hist.input.inner = "SomeFields"
    /\ hist.input.data.v.raw["field2"].data = Unset
    /\ hist.input.data.v.raw["text"].data = Val(<<65>>)
    /\ gen.status = "done"
    /\ target.data.v.raw["field1"].data = hist.input.data.v.raw["field1"].data
    /\ target.data.v.raw["text"].data = Val(<<65>>)
    /\ target.data.v.raw["field2"].data = Unset
    /\ target.data.v.raw["list1"].data # Unset

----------------------------------------------------------------------------
(* Declarations (SpecDecl): what the codec derives from the declarations   *)
(* a program makes before any byte is written.  In the family "tags" a     *)
(* FIELDS declaration is written field by field and _processFields         *)
(* assigns its tags; in the family "registry" the module registers its     *)
(* encoders, a program registers encoders of its own, and a caller looks   *)
(* up the encoder of a field type.                                         *)

\* The longest FIELDS declaration.
MaxFields == 3

FieldNameChoices == {"a", "b", "c"}

\* ExplicitTag attributes of a declared field; -1: none.
ExplicitTagChoices == {-1, 0, 1}

\* Encoders a program registers besides the module's own.
ExtraRegistrations ==
    { [outer |-> "ListFieldType", inner |-> "UINT", encoder |-> "UintListEncoder"],
      [outer |-> "UINT8", inner |-> NoClass, encoder |-> "Uint8Encoder"],
      [outer |-> "ComplexFieldType", inner |-> "DemoPacket",
       encoder |-> "DemoPacketEncoder"],
      [outer |-> "BOOL", inner |-> NoClass, encoder |-> "OtherBoolEncoder"] }

\* The classes of the field types a caller asks about, and their inner
\* classes when they are complex.
OuterClasses ==
    {"UINT", "UINT8", "INT", "BOOL", "FloatFieldType", "StringFieldType",
     "BufferFieldType", "OpaqueFieldType", "ComplexFieldType", "ListFieldType"}

InnerClasses(outer) ==
    IF outer = "ComplexFieldType"
    THEN {"SomeFields", "DemoPacket", "BasePacket", "PacketFields", "Unregistered"}
    ELSE IF outer = "ListFieldType"
    THEN {"UINT", "UINT8", "BOOL", "StringFieldType", "ComplexFieldType",
          "ListFieldType", "OpaqueFieldType"}
    ELSE {NoClass}

InitDecl ==
    /\ mode \in {"tags", "registry"}
    /\ stream = <<>>
    /\ pos = 0
    /\ max_size = NoMax
    /\ gen = Idle
    /\ target = NothingYet
    /\ wire = <<>>
    /\ hist = [fields |-> <<>>, processed |-> FALSE,
               result |-> [err |-> "none", f2t |-> [n \in {} |-> 0]],
               table |-> [k \in {} |-> ""], started |-> FALSE,
               asked |-> <<>>, found |-> None, err |-> "none"]

\* One more (name, type) pair in the FIELDS declaration.
Declare(name, tag) ==
    /\ mode = "tags"
    /\ ~hist.processed
    /\ Len(hist.fields) < MaxFields
    /\ hist' = [hist EXCEPT !.fields =
                   Append(@, Decl(name,
                       Field("UINT",
                             IF tag = -1 THEN NoAttrs ELSE "ExplicitTag" :> tag,
                             Unset)))]
    /\ UNCHANGED <<mode, stream, pos, max_size, gen, target, wire>>

\* PacketFieldsEncoder()._processFields(FIELDS)
ProcessFields ==
    /\ mode = "tags"
    /\ ~hist.processed
    /\ hist' = [hist EXCEPT !.processed = TRUE,
                            !.result = processFields(hist.fields)]
    /\ UNCHANGED <<mode, stream, pos, max_size, gen, target, wire>>

\* The RegisterTypeEncoder calls after each encoder class, run at import.
Startup ==
    /\ mode = "registry"
    /\ ~hist.started
    /\ hist' = [hist EXCEPT !.started = TRUE, !.table = TypeEncoders]
    /\ UNCHANGED <<mode, stream, pos, max_size, gen, target, wire>>

\* PlaygroundStandardPacketEncoder.RegisterTypeEncoder(type, encoder)
Register(reg) ==
    /\ mode = "registry"
    /\ hist.started
    /\ hist' = [hist EXCEPT !.table = RegisterTypeEncoder(@, reg),
                            !.asked = <<>>, !.found = None, !.err = "none"]
    /\ UNCHANGED <<mode, stream, pos, max_size, gen, target, wire>>

\* encode or decodeIterator up to the encoder it dispatches to:
\* GetTypeEncoder(fieldType), PacketEncodingError when there is none.
Lookup(outer, inner) ==
    /\ mode = "registry"
    /\ hist.started
    /\ LET typeEncoder == FirstRegistered(hist.table, GetTypeKey(outer, inner))
       IN  hist' = [hist EXCEPT !.asked = <<outer, inner>>,
                                !.found = typeEncoder,
                                !.err = IF typeEncoder = None
                                        THEN "PacketEncodingError" ELSE "none"]
    /\ UNCHANGED <<mode, stream, pos, max_size, gen, target, wire>>

NextDecl ==
    \/ \E name \in FieldNameChoices, tag \in ExplicitTagChoices : Declare(name, tag)
    \/ ProcessFields
    \/ Startup
    \/ \E reg \in ExtraRegistrations : Register(reg)
    \/ \E outer \in OuterClasses : \E inner \in InnerClasses(outer) :
          Lookup(outer, inner)

SpecDecl == InitDecl /\ [][NextDecl]_vars

----------------------------------------------------------------------------
(* Properties of declarations (SpecDecl) *)

\* The tags the claim gives the first n fields of a declaration: the
\* explicit tag where there is one, else the smallest natural number no
\* earlier field has.
RECURSIVE ClaimedTags(_, _)
ClaimedTags(fields, n) ==
    IF n = 0 THEN <<>>
    ELSE LET earlier == ClaimedTags(fields, n - 1)
             taken == {earlier[k] : k \in 1..(n - 1)}
             tag == GetAttribute(fields[n].type, "ExplicitTag", -1)
         IN  Append(earlier,
                    IF tag # -1 THEN tag
                    ELSE CHOOSE t \in 0..n : t \notin taken
                                             /\ \A u \in 0..(t - 1) : u \in taken)

\* C12 (tag assignment): _processFields fails exactly when a name is repeated
\* or an explicit tag is already taken by an earlier field's explicit or
\* auto-assigned tag; when it succeeds, distinct names have distinct tags, a
\* field with an explicit tag has that tag, a field without one has the
\* smallest natural number no earlier field has, and computing the mapping
\* again gives the same mapping.
C12_TagAssignment ==
    (mode = "tags" /\ hist.processed)
    => LET fields == hist.fields
           n == Len(fields)
           tags == ClaimedTags(fields, n)
           repeated == \E i, j \in 1..n : i < j /\ fields[i].name = fields[j].name
           taken == \E i, j \in 1..n :
                       /\ i < j
                       /\ GetAttribute(fields[j].type, "ExplicitTag", -1) # -1
                       /\ tags[i] = tags[j]
           f2t == hist.result.f2t
       IN  /\ (hist.result.err # "none") <=> (repeated \/ taken)
           /\ hist.result.err # "none" => hist.result.err = "Exception"
           /\ hist.result.err = "none"
              => /\ DOMAIN f2t = {fields[i].name : i \in 1..n}
                 /\ \A i \in 1..n : f2t[fields[i].name] = tags[i]
                 /\ \A i, j \in 1..n : i # j => f2t[fields[i].name] # f2t[fields[j].name]
                 /\ processFields(fields).f2t = f2t

\* Explicit tag 1, then two fields without one: they get 0 and 2.
C12_Witness ==
    /\ mode = "tags"
    /\ hist.processed
    /\ Len(hist.fields) = 3
    /\ GetAttribute(hist.fields[1].type, "ExplicitTag", -1) = 1
    /\ GetAttribute(hist.fields[2].type, "ExplicitTag", -1) = -1
    /\ GetAttribute(hist.fields[3].type, "ExplicitTag", -1) = -1
    /\ hist.result.err = "none"
    /\ hist.result.f2t[hist.fields[2].name] = 0
    /\ hist.result.f2t[hist.fields[3].name] = 2

\* cls is base or one of its descendants.
IsOrDescends(cls, base) == cls = base \/ IsSubclass(cls, base)

\* Key a is built from strict ancestors of key b: every class of a is the
\* class of b at its place or an ancestor of it, and the keys differ.
StrictAncestorKey(a, b) ==
    /\ Len(a) = Len(b)
    /\ a # b
    /\ \A i \in 1..Len(a) : IsOrDescends(b[i], a[i])

C13_WitnessUnregistered ==
    /\ mode = "registry"
    /\ hist.asked = <<"OpaqueFieldType", NoClass>>
    /\ hist.err = "PacketEncodingError"

\* C14 (read cap): from the lock on a frame of declared length L, for every
\* L >= 0 that passes the length check, until the decode of that frame ends,
\* no unpack request for more than L bytes gets past the size limit: it
\* neither waits for bytes nor reads any.
C14_ReadCap == gen.obs.locked => ~gen.obs.over

\* For a declared length above 0 the limit is enforced.
CapEnforcedAboveZero == (gen.obs.locked /\ gen.obs.lockLen > 0) => ~gen.obs.over

\* C15 (unknown packet type): when the name and version of a frame resolve
\* to no definition, the decode fails, never returns; the target is as the
\* caller handed it in, and the position is the end of the frame, the frame's
\* start plus its declared length.
C15_UnknownTypeSkipsFrame ==
    (mode = "unknown" /\ FirstDecode)
    => /\ gen.status # "done"
       /\ gen.status = "fail"
          => /\ gen.err = "Exception"
             /\ target = PacketTarget
             /\ pos = gen.obs.lockStart + gen.obs.lockLen

\* C16 (a short unpack request consumes nothing): at every yield of an unpack
\* request the position is where the request started, however many bytes of
\* it are in the stream, and every request that completed advanced the
\* position by exactly the size of its format.
C16_ShortRequestConsumesNothing ==
    /\ gen.status = "wait"
       => /\ gen.obs.req.open
          /\ pos = gen.obs.req.pos
          /\ ~hist.stale => Len(stream) - pos < gen.obs.req.size
    /\ gen.obs.exact

\* A request of 8 bytes suspended with 3 of its bytes in the stream, after
\* an earlier request completed.
C16_Witness ==
    /\ gen.status = "wait"
    /\ gen.obs.req.size = 8
    /\ gen.obs.req.pos = 8
    /\ pos = 8
    /\ Len(stream) = 11
    /\ ~hist.stale

----------------------------------------------------------------------------
(* One field arriving on a stream (SpecField): a sender encodes a field,   *)
(* the transport writes its bytes into the receiver's stream byte by byte  *)
(* or all at once, and a caller decodes them into a field object of the    *)
(* same declaration that is unset or holds data from an earlier use.       *)

\* FLOAT fields of 32 bits: 1.5 and -2.0
FloatFields ==
    { Field("FloatFieldType", NoAttrs, Val([bits |-> b])) :
        b \in {<<63, 192, 0, 0>>, <<192, 0, 0, 0>>} }

\* The data an object holds from an earlier use.
UsedData(field) ==
    CASE field.cls \in {"UINT", "INT"} -> Val(3)
      [] field.cls = "BOOL" -> Val(TRUE)
      [] field.cls = "FloatFieldType" -> Val([bits |-> <<0, 0, 0, 0>>])
      [] field.cls = "StringFieldType" -> Val(<<90>>)
      [] field.cls = "BufferFieldType" -> Val(<<7>>)
      [] field.cls = "ListFieldType" -> ListData(field.elem, <<9, 9, 9>>)

InitField ==
    /\ mode = "field"
    /\ stream = <<>>
    /\ pos = 0
    /\ max_size = NoMax
    /\ gen = Idle
    /\ target = NothingYet
    /\ wire = <<>>
    /\ hist = [k |-> 0, expect |-> <<>>, bad |-> 0, unit |-> 1,
               results |-> <<>>, stale |-> FALSE, prior |-> NothingYet]

\* The sender encodes field f: encoder.encode(wire, f)
WriteField(f) ==
    /\ mode = "field"
    /\ hist.expect = <<>>
    /\ \E r \in {encode(Stream(<<>>, 0), f)} :
           /\ r.err = "none"
           /\ wire' = r.s.bytes
           /\ hist' = [hist EXCEPT !.expect = <<f>>]
    /\ UNCHANGED <<mode, stream, pos, max_size, gen, target>>

\* g = encoder.decodeIterator(stream, fieldType); next(g), with fieldType
\* unset or holding data.
BeginDecode(used) ==
    /\ mode = "field"
    /\ Built
    /\ gen.status = "idle"
    /\ LET fieldType == IF used
                        THEN [hist.expect[1] EXCEPT
                                 !.data = UsedData(hist.expect[1])]
                        ELSE FreshTarget(hist.expect[1])
       IN  /\ \E m \in {decodeIterator(Stream(stream, pos), fieldType)} :
                  Store(m)
           /\ hist' = [hist EXCEPT !.stale = FALSE, !.prior = fieldType]
    /\ UNCHANGED <<mode, stream, wire>>

NextField ==
    \/ \E f \in IntFields : WriteField(f)
    \/ \E f \in BoolFields : WriteField(f)
    \/ \E f \in FloatFields : WriteField(f)
    \/ \E f \in StringFields : WriteField(f)
    \/ \E f \in BufferFields : WriteField(f)
    \/ \E f \in ListFields : WriteField(f)
    \/ \E n \in {Min(hist.unit, Len(wire)), Len(wire)} : Feed(n)
    \/ \E used \in BOOLEAN : BeginDecode(used)
    \/ ResumeDecode

SpecField == InitField /\ [][NextField]_vars

----------------------------------------------------------------------------
(* Properties of one field arriving on a stream (SpecField) *)

\* The decode of the field is in gen.
Decoding == mode = "field" /\ Built /\ gen.status # "idle"

IsLeaf(field) ==
    field.cls \in {"UINT", "INT", "BOOL", "FloatFieldType", "StringFieldType",
                   "BufferFieldType"}

\* C17 (no partial data in a leaf target): while the decode of a UINT, INT,
\* BOOL, FLOAT, STRING or BUFFER field is suspended, and when it has failed,
\* the data slot of the target holds what it held before the decode; the slot
\* is written at successful completion, with the value a decode of the whole
\* encoding in one pass gives.
C17_NoPartialLeafData ==
    (Decoding /\ IsLeaf(hist.expect[1]))
    => /\ gen.status \in {"wait", "fail"} => target = hist.prior
       /\ gen.status = "done"
          => LET whole == decodeIterator(Stream(Full, 0), hist.prior)
             IN  /\ whole.status = "done"
                 /\ target.data # Unset
                 /\ target = whole.root

\* A string decode suspended between its length and its bytes, the target
\* still holding the string of its earlier use.
C17_Witness ==
    /\ Decoding
    /\ hist.expect[1].cls = "StringFieldType"
    /\ hist.expect[1].data = Val(<<65, 90>>)
    /\ gen.status = "wait"
    /\ pos = 2
    /\ Len(stream) = 3
    /\ target.data = Val(<<90>>)

\* A string decode that failed on bytes that are no UTF-8, the target still
\* holding the string of its earlier use.
C17_WitnessFailed ==
    /\ Decoding
    /\ hist.expect[1].cls = "StringFieldType"
    /\ gen.status = "fail"
    /\ gen.err = "UnicodeDecodeError"
    /\ target.data = Val(<<90>>)

\* C19 (list decode replaces the target's contents): after a successful list
\* decode the target has exactly the n elements the wire announces, whatever
\* it held before, element i being the i-th decoded; decoding an encoded list
\* gives the list back.
C19_ListDecodeReplaces ==
    (Decoding /\ hist.expect[1].cls = "ListFieldType" /\ gen.status = "done")
    => LET items == hist.expect[1].data.v
       IN  /\ Len(target.data.v) = Num(Slice(Full, 0, 2))
           /\ Len(target.data.v) = Len(items)
           /\ \A i \in 1..Len(items) : target.data.v[i] = items[i]
           /\ target = hist.expect[1]

\* A list of two elements decoded into a target that held three.
C19_Witness ==
    /\ Decoding
    /\ hist.expect[1].cls = "ListFieldType"
    /\ hist.prior.data # Unset
    /\ Len(hist.prior.data.v) = 3
    /\ gen.obs.yielded
    /\ gen.status = "done"
    /\ Len(target.data.v) = 2
    /\ target.data.v[2].data = Val(255)

\* An empty list decoded into a target that held three elements.
C19_WitnessEmpty ==
    /\ Decoding
    /\ hist.expect[1].cls = "ListFieldType"
    /\ hist.prior.data # Unset
    /\ Len(hist.prior.data.v) = 3
    /\ gen.status = "done"
    /\ target.data.v = <<>>

\* The position the decode in gen started at: 0, or where the decode before
\* it ended.
DecodeStart ==
    IF hist.results = <<>> THEN 0 ELSE hist.results[Len(hist.results)].to

\* C18 (resync search order): the candidate starts a packet decode tries are
\* its initial position, then each next position, none skipped, and the
\* length words of a candidate are read at the candidate; every candidate
\* before the one in hand failed the length check; the decoder locks on the
\* lowest offset from its initial position that passes the check; and a
\* decode that returns ends at the locked start plus the declared length.
C18_ResyncSearchOrder ==
    (mode \in {"resume", "resync", "frames", "unknown"} /\ gen.status # "idle")
    => LET tried == gen.obs.tried
       IN  /\ \A i \in 1..Len(tried) :
                /\ tried[i].start = DecodeStart + i - 1
                /\ tried[i].at = tried[i].start
           /\ \A i \in 1..(Len(tried) - 1) : ~LengthCheckAt(stream, tried[i].start)
           /\ gen.obs.locked
              => /\ tried # <<>>
                 /\ gen.obs.lockStart = tried[Len(tried)].start
                 /\ LengthCheckAt(stream, gen.obs.lockStart)
                 /\ \A o \in DecodeStart..(gen.obs.lockStart - 1) :
                       ~LengthCheckAt(stream, o)
           /\ gen.status = "done"
              => /\ gen.obs.locked
                 /\ pos = gen.obs.lockStart + gen.obs.lockLen

\* Three garbage bytes: the candidates 0, 1, 2 failed the check, the decoder
\* locked on 3 and returned at the end of the 27-byte frame.
C18_Witness ==
    /\ mode = "resync"
    /\ FirstDecode
    /\ hist.k = 3
    /\ Len(gen.obs.tried) = 4
    /\ gen.obs.locked
    /\ gen.obs.lockStart = 3
    /\ gen.status = "done"
    /\ pos = 30

\* The frame of packet p encoded on an empty stream.
FrameOf(p) == encode(Stream(<<>>, 0), p).s.bytes

\* C20 (back-to-back frames): two packets encoded one after the other on one
\* stream give the frame of the first followed by the frame of the second,
\* the second encode having left the bytes before its start as they were and
\* the position at the end of its frame; packet decodes run from the start
\* of the first frame return the first packet, then the second, each ending
\* where its frame ends, and none fails.
C20_BackToBackFrames ==
    (mode = "frames" /\ Built /\ hist.bad = 0)
    => LET F1 == FrameOf(hist.expect[1])
           F2 == FrameOf(hist.expect[2])
           ends == <<Len(F1), Len(F1) + Len(F2)>>
       IN  /\ Full = F1 \o F2
           /\ hist.wpos = Len(F1) + Len(F2)
           /\ gen.status # "fail"
           /\ Len(hist.results) <= 2
           /\ \A i \in 1..Len(hist.results) :
                 /\ hist.results[i].status = "done"
                 /\ hist.results[i].value = hist.expect[i]
                 /\ hist.results[i].from = ends[i] - Len(FrameOf(hist.expect[i]))
                 /\ hist.results[i].to = ends[i]

\* The 30-byte frame, then the 27-byte frame, decoded by two decodes.
C20_Witness ==
    /\ mode = "frames"
    /\ Built
    /\ hist.bad = 0
    /\ hist.expect = <<LongPacket, ShortPacket>>
    /\ Len(hist.results) = 2
    /\ hist.results[1].to = 30
    /\ hist.results[2].from = 30
    /\ hist.results[2].to = 57
    /\ hist.results[2].value = ShortPacket

----------------------------------------------------------------------------
(* The resync search on a stream that holds no frame (Spec, family "noise") *)

\* No offset of the bytes of the behaviour passes the length check.
NoLengthCheck == \A o \in 0..Len(Full) : ~LengthCheckAt(Full, o)

\* The candidate start the search has in hand: packetStartPosition.
Candidate == gen.stack[Len(gen.stack)].start

\* C21 (garbage never fails the search): on a stream in which no offset
\* passes the length check, a packet decode neither fails nor returns
\* however many bytes are written: it is suspended for more bytes; it has
\* examined, one after the other from its initial position, every offset
\* that has 16 bytes on the stream and no other; and the candidate it is
\* suspended at, the first offset with fewer than 16 bytes, is the one it
\* goes on with when it is resumed: none is examined twice, none is skipped,
\* and a length word it has read of the candidate stays read.
C21_GarbageNeverFailsTheSearch ==
    (mode = "noise" /\ NoLengthCheck /\ gen.status # "idle")
    => LET tried == gen.obs.tried
       IN  /\ gen.status = "wait"
           /\ hist.results = <<>>
           /\ ~gen.obs.locked
           /\ \A i \in 1..Len(tried) : tried[i].start = i - 1
           /\ \A o \in 0..(Candidate - 1) :
                /\ o + 16 <= Len(stream)
                /\ tried[o + 1].at = o
           /\ Len(tried) \in {Candidate, Candidate + 1}
           /\ pos = IF Len(tried) = Candidate THEN Candidate ELSE Candidate + 8
           /\ ~hist.stale
              => /\ Candidate = Max(0, Len(stream) - 15)
                 /\ Len(stream) - pos < 8

\* Eighteen bytes of noise are on the stream and the decoder has run on
\* them: the offsets 0, 1, 2 were examined and the decoder is suspended at candidate 3
\* with its first length word read.
C21_Witness ==
    /\ mode = "noise"
    /\ NoLengthCheck
    /\ gen.status = "wait"
    /\ ~hist.stale
    /\ Len(stream) = Candidate + 15
    /\ Len(gen.obs.tried) = 4
    /\ Candidate = 3
    /\ pos = 11

\* The decoder was suspended at candidate 1, more noise was written, and the
\* decoder has not run since.
C21_WitnessResumable ==
    /\ mode = "noise"
    /\ NoLengthCheck
    /\ gen.status = "wait"
    /\ hist.stale
    /\ Candidate = 1
    /\ Len(stream) > Candidate + 15
============================================================================
